---- MODULE Spec2Model ----
(***************************************************************************)
(* A model of the record marshalling engine of Wrye Bash (brec):           *)
(* form identifiers and their ambient resolvers (utils_constants.py) and   *)
(* the common subrecord elements built on them (common_subrecords.py).     *)
(*                                                                         *)
(* Python values are modelled as results: <<"ok", v>> is a returned value, *)
(* <<"raise", E>> an exception of class E, and NotImplemented the value a  *)
(* binary dunder returns to make the interpreter try the reflected one.    *)
(***************************************************************************)
EXTENDS Integers, Sequences, FiniteSets, TLC

VARIABLES
    FORM_ID,        \* utils_constants.FORM_ID: None or the class of the load
    short_mapper,   \* utils_constants.short_mapper: None or the output masters
    fa, fb,         \* two form identifier objects the caller holds
    res,            \* the outcome of the last form identifier operation
    chunk,          \* the payload of the condition chunk last loaded
    cond,           \* the condition record: the outcome of the last load
    snap,           \* the condition record as it was when its dump began
    out,            \* the outcome of the last dump of the condition
    outMs,          \* the masters the last dump of the condition mapped by
    phase,          \* where the condition is in its load/dump cycle
    schema,         \* the element tree of the record with collections
    record,         \* the record with collections: attribute -> value
    before,         \* that record as it was when its dump began
    written,        \* the outcome of its last dump: the chunks in order
    writtenBy,      \* the masters that dump mapped by
    normMel,        \* the element of the record that is dumped twice
    normRec,        \* that record: the outcome of its last load
    dumps,          \* its dumps so far: the output masters and the outcome
    normPhase,      \* where that record is in its load/dump cycle
    melSet,         \* the record type whose elements load the target
    target,         \* the record under load: attribute -> value
    effect,         \* the outcome of the last element operation on it
    _last_indx,     \* MelRaceParts._last_indx of the one RACE descriptor
    flags           \* a flags object: its class, _field as the set of set bits

fidVars == <<FORM_ID, short_mapper, fa, fb, res>>
ctdaVars == <<chunk, cond, snap, out, outMs, phase>>
collVars == <<schema, record, before, written, writtenBy>>
normVars == <<normMel, normRec, dumps, normPhase>>
melVars == <<melSet, target, effect, _last_indx, flags>>
elemVars == <<collVars, normVars, melVars>>
nonFidVars == <<ctdaVars, elemVars>>

vars == <<fidVars, ctdaVars, elemVars>>

-----------------------------------------------------------------------------
(* Python plumbing                                                         *)

NotImplemented == <<"ni", 0>>
Ok(v) == <<"ok", v>>
Raise(e) == <<"raise", e>>
IsOk(r) == r[1] = "ok"
IsRaise(r) == r[1] = "raise"
Val(r) == r[2]
Raises(r, e) == r[1] = "raise" /\ r[2] = e

\* bool results: not r, with an exception passing through
PyNot(r) == IF IsOk(r) THEN Ok(~Val(r)) ELSE r

\* no outcome yet
NoResult == <<"none", 0>>

\* no condition was loaded or dumped yet
CtdaInit ==
    /\ chunk = <<>>
    /\ cond = NoResult
    /\ snap = NoResult
    /\ out = NoResult
    /\ outMs = <<>>
    /\ phase = "new"

\* no record with collections was loaded yet
CollInit ==
    /\ schema = <<>>
    /\ record = NoResult
    /\ before = NoResult
    /\ written = NoResult
    /\ writtenBy = <<>>

\* no record was loaded to be dumped twice yet
NormInit ==
    /\ normMel = ""
    /\ normRec = NoResult
    /\ dumps = <<>>
    /\ normPhase = "new"

\* no element operation yet
NoEffect == [op |-> "none"]

\* no record is under load, the RACE descriptor is as constructed
\* (self._last_indx = None) and the flags object is an empty SpellFlags
MelInit ==
    /\ melSet = ""
    /\ target = NoResult
    /\ effect = NoEffect
    /\ _last_indx = <<"none", 0>>
    /\ flags = [cls |-> "SpellFlags", _field |-> {}]

-----------------------------------------------------------------------------
(* Bounds and the plugin names of the model                                *)

\* highest master index a short form id of the model carries
MaxModDex == 2

\* plugin names in FName (case-insensitive alphabetical) order
Names == <<"Bar.esp", "Foo.esm", "Game.esm">>
NameSet == {Names[i] : i \in 1..Len(Names)}
NameRank(n) == CHOOSE i \in 1..Len(Names) : Names[i] = n

\* bush.game.master_fid(0).long_fid[0], the game's master file
GameMaster == "Game.esm"

Shift24 == 16777216
ObjIds == {0, 3}
ShortVals == {h * Shift24 + o : h \in 0..MaxModDex, o \in ObjIds}

\* master lists a load context can establish (augmented: the plugin is last)
LoadMasters == {<<"Foo.esm", "Bar.esp">>, <<"Game.esm">>}

\* master lists of an output file: every plugin the records refer to
DumpMasters == {<<"Foo.esm", "Bar.esp", "Game.esm">>,
                <<"Game.esm", "Bar.esp", "Foo.esm">>}

\* FORM_ID = None and short_mapper = None
NoFormId == [masters |-> <<>>, overlay |-> FALSE]
NoMapper == <<>>

-----------------------------------------------------------------------------
(* Form identifier objects.  cls is the Python class of the object:        *)
(*   "FormId"    the base class, no master table                           *)
(*   "_FormID"   a class made by from_masters (masters, overlay)           *)
(*   "__FormId"  a class made by from_tuple (owner)                        *)
(*   "_Tes4Fid", "_DummyFid", "_NoneFid"  the sentinels' classes           *)

Obj(cls, s, ms, ov, own) ==
    [cls |-> cls, short_fid |-> s, masters |-> ms, overlay |-> ov,
     owner |-> own]

FormId(int_val) == Obj("FormId", int_val, <<>>, FALSE, "")

\* the class from_masters returns, as the pair that determines its long_fid
from_masters(augmented_masters, in_overlay_plugin) ==
    [masters |-> augmented_masters, overlay |-> in_overlay_plugin]

\* instantiating such a class
NewOf(form_id_type, int_val) ==
    Obj("_FormID", int_val, form_id_type.masters, form_id_type.overlay, "")

from_tuple(owner, objdex) == Obj("__FormId", objdex, <<>>, FALSE, owner)

ZERO_FID == Obj("_Tes4Fid", 0, <<>>, FALSE, "")
DUMMY_FID == Obj("_DummyFid", 0, <<>>, FALSE, "")
NONE_FID == Obj("_NoneFid", 0, <<>>, FALSE, "")

\* a plain Python int, for the places where the code stores or compares one
PyInt(n) == Obj("int", n, <<>>, FALSE, "")

IsFormId(o) == o.cls \in {"FormId", "_FormID", "__FormId", "_Tes4Fid",
                          "_DummyFid"}
IsNoneFid(o) == o.cls = "_NoneFid"
IsInt(o) == o.cls = "int"

object_dex(o) == o.short_fid % Shift24
mod_dex(o) == o.short_fid \div Shift24

\* long forms: <<"t", owner, object index>> is the Python tuple,
\* <<"i", n, 0>> the unmapped int of the base class
LongT(n, o) == <<"t", n, o>>
LongI(n) == <<"i", n, 0>>

\* (mutant) the master index applied without masking the object index
long_fid_unmasked(o) ==
    IF mod_dex(o) + 1 <= Len(o.masters)
    THEN LongT(o.masters[mod_dex(o) + 1], o.short_fid)
    ELSE LongT(o.masters[Len(o.masters)], o.short_fid)

\* _FormID.long_fid of a normal plugin
long_fid_normal(o) ==
    IF mod_dex(o) + 1 <= Len(o.masters)
    THEN LongT(o.masters[mod_dex(o) + 1], object_dex(o))
    ELSE LongT(o.masters[Len(o.masters)], object_dex(o))

\* (mutant) an overlay plugin whose threshold is the number of masters
long_fid_overlay_len(o) ==
    LET overlay_threshold == Len(o.masters) IN
    IF mod_dex(o) >= overlay_threshold
    THEN LongT(o.masters[1], object_dex(o))
    ELSE LongT(o.masters[mod_dex(o) + 1], object_dex(o))

\* _FormID.long_fid of an overlay plugin
long_fid_overlay(o) ==
    LET overlay_threshold == Len(o.masters) - 1 IN
    IF mod_dex(o) >= overlay_threshold
    THEN LongT(o.masters[1], object_dex(o))
    ELSE IF mod_dex(o) + 1 <= Len(o.masters)
         THEN LongT(o.masters[mod_dex(o) + 1], object_dex(o))
         ELSE LongT(o.masters[Len(o.masters)], object_dex(o))

\* the long_fid property of each class; _NoneFid has no such attribute
long_fid(o) ==
    CASE o.cls = "FormId" -> Ok(LongI(o.short_fid))
      [] o.cls = "_FormID" ->
            Ok(IF o.overlay THEN long_fid_overlay(o) ELSE long_fid_normal(o))
      [] o.cls = "__FormId" -> Ok(LongT(o.owner, o.short_fid))
      [] o.cls \in {"_Tes4Fid", "_DummyFid"} -> Ok(LongT(GameMaster, 0))
      [] OTHER -> Raise("AttributeError")

\* (mutant) mod_fn without the except clause: subscripting the int raises
\* a TypeError that is not turned into a StateError
mod_fn_unchecked(o) ==
    LET l == long_fid(o) IN
    IF IsRaise(l) THEN l
    ELSE IF Val(l)[1] = "t" THEN Ok(Val(l)[2]) ELSE Raise("TypeError")

\* FormId.mod_fn: long_fid[0], a StateError when long_fid is no tuple
mod_fn(o) ==
    LET l == long_fid(o) IN
    IF IsRaise(l) THEN l
    ELSE IF Val(l)[1] = "t" THEN Ok(Val(l)[2]) ELSE Raise("StateError")

\* (mutant) a FID that wraps by the class of one load for good
FID_stale(form_id, x) ==
    Ok(NewOf(from_masters(<<"Foo.esm", "Bar.esp">>, FALSE), x))

\* FID = lambda x: FORM_ID(x); calling None is a TypeError
FID(form_id, x) ==
    IF form_id = NoFormId THEN Raise("TypeError") ELSE Ok(NewOf(form_id, x))

\* comparisons of long forms, as Python compares tuples and ints
LongLt(l, m) ==
    IF l[1] # m[1] THEN Raise("TypeError")
    ELSE IF l[1] = "i" THEN Ok(l[2] < m[2])
    ELSE Ok(NameRank(l[2]) < NameRank(m[2])
            \/ (l[2] = m[2] /\ l[3] < m[3]))
LongCmp(op, l, m) ==
    CASE op = "lt" -> LongLt(l, m)
      [] op = "gt" -> LongLt(m, l)
      [] op = "le" -> PyNot(LongLt(m, l))
      [] op = "ge" -> PyNot(LongLt(l, m))
IntCmp(op, x, y) ==
    CASE op = "lt" -> x < y
      [] op = "gt" -> x > y
      [] op = "le" -> x <= y
      [] op = "ge" -> x >= y

\* The dump-time resolver the output context installs:
\* (indices[formid.mod_fn] << 24) + formid.object_dex
IndexIn(ms, n) == CHOOSE i \in 1..Len(ms) : ms[i] = n
Call_short_mapper(sm, o) ==
    IF sm = NoMapper THEN Raise("TypeError")
    ELSE IF ~IsFormId(o) THEN Raise("AttributeError")
    ELSE LET m == mod_fn(o) IN
         IF IsRaise(m) THEN m
         ELSE IF \A i \in 1..Len(sm) : sm[i] # Val(m) THEN Raise("KeyError")
         ELSE Ok((IndexIn(sm, Val(m)) - 1) * Shift24 + object_dex(o))

-----------------------------------------------------------------------------
(* Hash and comparisons of FormId.  Each dunder returns a result or        *)
(* NotImplemented; sm is the ambient short_mapper.                         *)

\* FormId.__eq__ / __ne__: the long forms, an other without long_fid
\* (AttributeError suppressed) falls to the isinstance test
\* (mutant) equality of the short values
FormId__eq__by_short(self, other) ==
    IF IsOk(long_fid(other)) THEN Ok(self.short_fid = other.short_fid)
    ELSE NotImplemented

FormId__eq__(self, other) ==
    IF IsOk(long_fid(other)) THEN Ok(Val(long_fid(self)) = Val(long_fid(other)))
    ELSE IF IsInt(other) /\ Val(long_fid(self))[1] = "i"
         THEN Ok(Val(long_fid(self))[2] = other.short_fid)
    ELSE NotImplemented

FormId__ne__(self, other) ==
    IF IsOk(long_fid(other)) THEN Ok(Val(long_fid(self)) # Val(long_fid(other)))
    ELSE IF IsInt(other) /\ Val(long_fid(self))[1] = "i"
         THEN Ok(Val(long_fid(self))[2] # other.short_fid)
    ELSE NotImplemented

FormId__hash__(self) == Val(long_fid(self))

\* the body shared by __lt__, __ge__, __gt__ and __le__:
\*   with suppress(TypeError): return short_mapper(self) OP short_mapper(other)
\*   with suppress(AttributeError): return self.long_fid OP other.long_fid
\*   if isinstance(self.long_fid, type(other)): return self.long_fid OP other
\*   return NotImplemented
FormIdLongOrder(op, self, other) ==
    IF IsOk(long_fid(other))
    THEN LongCmp(op, Val(long_fid(self)), Val(long_fid(other)))
    ELSE IF IsInt(other) /\ Val(long_fid(self))[1] = "i"
         THEN Ok(IntCmp(op, Val(long_fid(self))[2], other.short_fid))
    ELSE NotImplemented

FormIdOrder(op, sm, self, other) ==
    LET s1 == Call_short_mapper(sm, self)
        s2 == Call_short_mapper(sm, other)
    IN  IF IsRaise(s1)
        THEN IF Raises(s1, "TypeError") THEN FormIdLongOrder(op, self, other)
             ELSE s1
        ELSE IF IsRaise(s2)
        THEN IF Raises(s2, "TypeError") THEN FormIdLongOrder(op, self, other)
             ELSE s2
        ELSE Ok(IntCmp(op, Val(s1), Val(s2)))

\* (mutant) __lt__ that never asks the dump-time resolver
FormId__lt__long_only(sm, self, other) == FormIdLongOrder("lt", self, other)

FormId__lt__(sm, self, other) == FormIdOrder("lt", sm, self, other)
FormId__ge__(sm, self, other) == FormIdOrder("ge", sm, self, other)
FormId__gt__(sm, self, other) == FormIdOrder("gt", sm, self, other)
FormId__le__(sm, self, other) == FormIdOrder("le", sm, self, other)

\* _NoneFid.dump returns 0xFFFFFFFF; the model's integers are 32-bit signed,
\* so the word of 32 one bits is written as its signed reading
NoneFidDump == -1

\* (mutant) dump without the override of _Tes4Fid
FormId_dump_no_override(sm, self) ==
    CASE self.cls = "_DummyFid" -> Raise("NotImplementedError")
      [] self.cls = "_NoneFid" -> Ok(NoneFidDump)
      [] OTHER -> Call_short_mapper(sm, self)

\* (mutant) _DummyFid without its own dump: it inherits _Tes4Fid's
FormId_dump_dummy_inherits(sm, self) ==
    CASE self.cls \in {"_Tes4Fid", "_DummyFid"} -> Ok(0)
      [] self.cls = "_NoneFid" -> Ok(NoneFidDump)
      [] OTHER -> Call_short_mapper(sm, self)

\* FormId.dump and the overrides of the sentinel classes
FormId_dump(sm, self) ==
    CASE self.cls = "_Tes4Fid" -> Ok(0)
      [] self.cls = "_DummyFid" -> Raise("NotImplementedError")
      [] self.cls = "_NoneFid" -> Ok(NoneFidDump)
      [] OTHER -> Call_short_mapper(sm, self)

-----------------------------------------------------------------------------
(* _NoneFid and the interpreter's comparison protocol                      *)

_NoneFid__lt__(self, other) ==
    IF IsFormId(other) \/ IsNoneFid(other) THEN Ok(FALSE) ELSE NotImplemented

_NoneFid__gt__(self, other) ==
    IF IsFormId(other) THEN Ok(TRUE)
    ELSE IF IsNoneFid(other) THEN Ok(FALSE)
    ELSE NotImplemented

_NoneFid__eq__(self, other) ==
    IF IsFormId(other) THEN Ok(FALSE)
    ELSE IF IsNoneFid(other) THEN Ok(TRUE)
    ELSE NotImplemented

\* a < b: a.__lt__(b), then the reflected b.__gt__(a), then TypeError
\* (an int knows nothing of the other classes: NotImplemented)
Dunder_lt(sm, a, b) ==
    CASE IsFormId(a) -> FormId__lt__(sm, a, b)
      [] IsNoneFid(a) -> _NoneFid__lt__(a, b)
      [] OTHER -> IF IsInt(b) THEN Ok(a.short_fid < b.short_fid)
                  ELSE NotImplemented
Dunder_gt(sm, a, b) ==
    CASE IsFormId(a) -> FormId__gt__(sm, a, b)
      [] IsNoneFid(a) -> _NoneFid__gt__(a, b)
      [] OTHER -> IF IsInt(b) THEN Ok(a.short_fid > b.short_fid)
                  ELSE NotImplemented
Reflect(r, r2) ==
    IF r # NotImplemented THEN r
    ELSE IF r2 # NotImplemented THEN r2 ELSE Raise("TypeError")
Py_lt(sm, a, b) == Reflect(Dunder_lt(sm, a, b), Dunder_gt(sm, b, a))
Py_gt(sm, a, b) == Reflect(Dunder_gt(sm, a, b), Dunder_lt(sm, b, a))

\* a == b: a.__eq__(b), then b.__eq__(a), then identity
Dunder_eq(a, b) ==
    CASE IsFormId(a) -> FormId__eq__(a, b)
      [] IsNoneFid(a) -> _NoneFid__eq__(a, b)
      [] OTHER -> IF IsInt(b) THEN Ok(a.short_fid = b.short_fid)
                  ELSE NotImplemented
Py_eq(a, b) ==
    LET r == Dunder_eq(a, b) r2 == Dunder_eq(b, a) IN
    IF r # NotImplemented THEN r
    ELSE IF r2 # NotImplemented THEN r2 ELSE Ok(FALSE)

_NoneFid__le__(sm, self, other) == PyNot(Py_gt(sm, self, other))
_NoneFid__ge__(sm, self, other) == PyNot(Py_lt(sm, self, other))
_NoneFid__ne__(self, other) == PyNot(Py_eq(self, other))

Dunder_le(sm, a, b) ==
    CASE IsFormId(a) -> FormId__le__(sm, a, b)
      [] IsNoneFid(a) -> _NoneFid__le__(sm, a, b)
      [] OTHER -> IF IsInt(b) THEN Ok(a.short_fid <= b.short_fid)
                  ELSE NotImplemented
Dunder_ge(sm, a, b) ==
    CASE IsFormId(a) -> FormId__ge__(sm, a, b)
      [] IsNoneFid(a) -> _NoneFid__ge__(sm, a, b)
      [] OTHER -> IF IsInt(b) THEN Ok(a.short_fid >= b.short_fid)
                  ELSE NotImplemented
Py_le(sm, a, b) == Reflect(Dunder_le(sm, a, b), Dunder_ge(sm, b, a))
Py_ge(sm, a, b) == Reflect(Dunder_ge(sm, a, b), Dunder_le(sm, b, a))

Dunder_ne(a, b) ==
    CASE IsFormId(a) -> FormId__ne__(a, b)
      [] IsNoneFid(a) -> _NoneFid__ne__(a, b)
      [] OTHER -> IF IsInt(b) THEN Ok(a.short_fid # b.short_fid)
                  ELSE NotImplemented
Py_ne(a, b) ==
    LET r == Dunder_ne(a, b) r2 == Dunder_ne(b, a) IN
    IF r # NotImplemented THEN r
    ELSE IF r2 # NotImplemented THEN r2 ELSE Ok(TRUE)

-----------------------------------------------------------------------------
(* The form identifier machine: sessions install and remove the ambient    *)
(* resolvers, the caller makes form identifiers and operates on them.      *)

NoCmp == [lt |-> NotImplemented, le |-> NotImplemented, gt |-> NotImplemented,
          ge |-> NotImplemented, eq |-> NotImplemented, ne |-> NotImplemented]
Outcome(op, r, cmp) == [op |-> op, r |-> r, cmp |-> cmp]
Idle == Outcome("none", Ok(0), NoCmp)

FidInit ==
    /\ FORM_ID = NoFormId
    /\ short_mapper = NoMapper
    /\ fa = ZERO_FID
    /\ fb = ZERO_FID
    /\ res = Idle
    /\ CtdaInit
    /\ CollInit
    /\ NormInit
    /\ MelInit

\* the mod reader context: FORM_ID is the class of the loading plugin
EnterLoad ==
    /\ FORM_ID = NoFormId
    /\ \E ms \in LoadMasters, ov \in BOOLEAN :
          FORM_ID' = from_masters(ms, ov)
    /\ res' = Idle
    /\ UNCHANGED <<short_mapper, fa, fb, nonFidVars>>

ExitLoad ==
    /\ FORM_ID # NoFormId
    /\ FORM_ID' = NoFormId
    /\ res' = Idle
    /\ UNCHANGED <<short_mapper, fa, fb, nonFidVars>>

\* the plugin output context: short_mapper maps by the output masters
EnterDump ==
    /\ short_mapper = NoMapper
    /\ \E ms \in DumpMasters : short_mapper' = ms
    /\ res' = Idle
    /\ UNCHANGED <<FORM_ID, fa, fb, nonFidVars>>

ExitDump ==
    /\ short_mapper # NoMapper
    /\ short_mapper' = NoMapper
    /\ res' = Idle
    /\ UNCHANGED <<FORM_ID, fa, fb, nonFidVars>>

\* the caller keeps the new object and the one made before it
Keep(o) == fa' = fb /\ fb' = o

\* FID(x): wrap a short value read from the plugin
MakeFid ==
    \E x \in ShortVals :
       LET r == FID(FORM_ID, x) IN
       /\ res' = Outcome("FID", r, NoCmp)
       /\ IF IsOk(r) THEN Keep(Val(r)) ELSE UNCHANGED <<fa, fb>>
       /\ UNCHANGED <<FORM_ID, short_mapper, nonFidVars>>

\* FormId(x): the base class, no master table
MakePlain ==
    \E x \in ShortVals :
       /\ res' = Outcome("FormId", Ok(FormId(x)), NoCmp)
       /\ Keep(FormId(x))
       /\ UNCHANGED <<FORM_ID, short_mapper, nonFidVars>>

\* FormId.from_tuple((owner, object index))
MakeFromTuple ==
    \E n \in NameSet, o \in ObjIds :
       /\ res' = Outcome("from_tuple", Ok(from_tuple(n, o)), NoCmp)
       /\ Keep(from_tuple(n, o))
       /\ UNCHANGED <<FORM_ID, short_mapper, nonFidVars>>

\* one of the module's singletons
TakeSentinel ==
    \E o \in {ZERO_FID, NONE_FID, DUMMY_FID} :
       /\ res' = Outcome("sentinel", Ok(o), NoCmp)
       /\ Keep(o)
       /\ UNCHANGED <<FORM_ID, short_mapper, nonFidVars>>

\* fa OP fb for the six comparison operators
Compare ==
    /\ res' = Outcome("compare", Ok(0),
                [lt |-> Py_lt(short_mapper, fa, fb),
                 le |-> Py_le(short_mapper, fa, fb),
                 gt |-> Py_gt(short_mapper, fa, fb),
                 ge |-> Py_ge(short_mapper, fa, fb),
                 eq |-> Py_eq(fa, fb),
                 ne |-> Py_ne(fa, fb)])
    /\ UNCHANGED <<FORM_ID, short_mapper, fa, fb, nonFidVars>>

\* fa.long_fid and fa.mod_fn
GetLong ==
    /\ res' = Outcome("long_fid", long_fid(fa), NoCmp)
    /\ UNCHANGED <<FORM_ID, short_mapper, fa, fb, nonFidVars>>

GetModFn ==
    /\ res' = Outcome("mod_fn", mod_fn(fa), NoCmp)
    /\ UNCHANGED <<FORM_ID, short_mapper, fa, fb, nonFidVars>>

\* fa.dump()
DumpFid ==
    /\ res' = Outcome("dump", FormId_dump(short_mapper, fa), NoCmp)
    /\ UNCHANGED <<FORM_ID, short_mapper, fa, fb, nonFidVars>>

\* hash(fa) and hash(fb), for two FormIds
HashFids ==
    /\ IsFormId(fa) /\ IsFormId(fb)
    /\ res' = Outcome("hash", Ok(<<FormId__hash__(fa), FormId__hash__(fb)>>),
                      NoCmp)
    /\ UNCHANGED <<FORM_ID, short_mapper, fa, fb, nonFidVars>>

FidNext ==
    \/ EnterLoad \/ ExitLoad \/ EnterDump \/ ExitDump
    \/ MakeFid \/ MakePlain \/ MakeFromTuple \/ TakeSentinel
    \/ Compare \/ GetLong \/ GetModFn \/ DumpFid \/ HashFids

SpecFid == FidInit /\ [][FidNext]_vars

-----------------------------------------------------------------------------
(* The primitive codec: struct_pack / struct_unpack on one format code.    *)
(* A payload is a sequence of bytes.  Python values carry their type:      *)
(*   <<"int", n>>, <<"float", b>> (b the four bytes of the IEEE single),   *)
(*   <<"bytes", s>>, <<"fid", o>> (a form identifier object).              *)

PInt(n) == <<"int", n>>
PFloat(b) == <<"float", b>>
PBytes(b) == <<"bytes", b>>
PFid(o) == <<"fid", o>>
IsPInt(v) == v[1] = "int"
IsPFloat(v) == v[1] = "float"
IsPBytes(v) == v[1] = "bytes"
IsPFid(v) == v[1] = "fid"

\* v == w: form identifiers by their __eq__, other values by value
ValEq(v, w) ==
    /\ v[1] = w[1]
    /\ IF IsPFid(v) THEN Py_eq(v[2], w[2]) = Ok(TRUE) ELSE v[2] = w[2]

RECURSIVE Pow256(_)
Pow256(k) == IF k = 0 THEN 1 ELSE 256 * Pow256(k - 1)

\* little-endian bytes of n in w bytes; a negative n in two's complement
LE(n, w) ==
    IF n >= 0 THEN [i \in 1..w |-> (n \div Pow256(i - 1)) % 256]
    ELSE [i \in 1..w |-> 255 - (((-(n + 1)) \div Pow256(i - 1)) % 256)]

RECURSIVE FromLE(_)
FromLE(b) == IF b = <<>> THEN 0 ELSE b[1] + 256 * FromLE(Tail(b))
FromLESigned(b) ==
    IF b[Len(b)] >= 128
    THEN -(FromLE([i \in 1..Len(b) |-> 255 - b[i]])) - 1
    ELSE FromLE(b)

Zeros(n) == [i \in 1..n |-> 0]
Slice(b, from, n) == [i \in 1..n |-> b[from + i - 1]]

\* size in bytes of a format code
CodeSize(c) ==
    CASE c \in {"B", "b"} -> 1
      [] c = "H" -> 2
      [] c \in {"I", "i", "f", "4s"} -> 4
      [] c = "2s" -> 2
      [] c = "3s" -> 3
      [] c = "8s" -> 8
RECURSIVE FmtSize(_)
FmtSize(fmt) == IF fmt = <<>> THEN 0
                ELSE CodeSize(Head(fmt)) + FmtSize(Tail(fmt))

\* the single nearest to an int, for the ints the model packs as a float
FloatBitsOfInt(n) ==
    CASE n = 0 -> <<0, 0, 0, 0>>
      [] n = 1 -> <<0, 0, 128, 63>>
      [] n = 2 -> <<0, 0, 0, 64>>
      [] n = 3 -> <<0, 0, 64, 64>>
      [] n = 5 -> <<0, 0, 160, 64>>
      [] n = 7 -> <<0, 0, 224, 64>>
      [] n = 16777219 -> <<2, 0, 128, 75>>
      [] n = 1065353216 -> <<0, 0, 126, 78>>

\* struct_unpack(code, bytes)[0]
struct_unpack(c, b) ==
    CASE c \in {"B", "H", "I"} -> PInt(FromLE(b))
      [] c \in {"i", "b"} -> PInt(FromLESigned(b))
      [] c = "f" -> PFloat(b)
      [] c \in {"2s", "3s", "4s", "8s"} -> PBytes(b)

\* struct_pack(code, value): a struct.error when the value has not the type
\* the code packs ('f' takes an int as well, a string code pads with nulls)
struct_pack(c, v) ==
    CASE c \in {"B", "H", "I"} ->
            IF IsPInt(v) /\ v[2] >= 0 THEN Ok(LE(v[2], CodeSize(c)))
            ELSE Raise("struct.error")
      [] c = "i" ->
            IF IsPInt(v) THEN Ok(LE(v[2], 4)) ELSE Raise("struct.error")
      [] c = "f" ->
            IF IsPFloat(v) THEN Ok(v[2])
            ELSE IF IsPInt(v) THEN Ok(FloatBitsOfInt(v[2]))
            ELSE Raise("struct.error")
      [] c \in {"2s", "3s", "4s", "8s"} ->
            IF IsPBytes(v)
            THEN Ok([i \in 1..CodeSize(c) |->
                        IF i <= Len(v[2]) THEN v[2][i] ELSE 0])
            ELSE Raise("struct.error")

\* unpack a whole payload by a format: the values in order
RECURSIVE UnpackAll(_, _)
UnpackAll(fmt, b) ==
    IF fmt = <<>> THEN <<>>
    ELSE <<struct_unpack(Head(fmt), Slice(b, 1, CodeSize(Head(fmt))))>>
         \o UnpackAll(Tail(fmt),
                      Slice(b, CodeSize(Head(fmt)) + 1,
                            Len(b) - CodeSize(Head(fmt))))

\* pack values by a format: the bytes, or the first error
RECURSIVE PackAll(_, _)
PackAll(fmt, vals) ==
    IF fmt = <<>> THEN Ok(<<>>)
    ELSE LET h == struct_pack(Head(fmt), Head(vals))
             t == PackAll(Tail(fmt), Tail(vals))
         IN  IF IsRaise(h) THEN h
             ELSE IF IsRaise(t) THEN t
             ELSE Ok(Val(h) \o Val(t))

-----------------------------------------------------------------------------
(* Struct elements.  A struct is [fmt, attrs, actions, olds]: the format   *)
(* codes, the attribute each code fills, the action applied to the value   *)
(* ("" none, "FID", "Flags") and the formats of its old versions.          *)

Struct(fmt, attrs, actions, olds) ==
    [fmt |-> fmt, attrs |-> attrs, actions |-> actions, olds |-> olds]

SetAttrs(rec, attrs, vals) ==
    [a \in DOMAIN rec |->
        IF \E i \in 1..Len(attrs) : attrs[i] = a
        THEN vals[CHOOSE i \in 1..Len(attrs) : attrs[i] = a]
        ELSE rec[a]]

\* the action of an element applied to an unpacked value
ApplyAction(action, form_id, v) ==
    IF action = "FID"
    THEN LET f == FID(form_id, v[2]) IN
         IF IsOk(f) THEN Ok(PFid(Val(f))) ELSE f
    ELSE Ok(v)

\* (mutant) a truncated struct that accepts the current format only
AcceptedFormats_current_only(st) == {st.fmt}

\* the formats a (truncated) struct accepts: the current one and the old ones
AcceptedFormats(st) == {st.fmt} \cup st.olds

\* MelTruncatedStruct.load_mel (MelStruct.load_mel when olds is empty): the
\* payload's length selects the format, the attributes the format does not
\* cover get the default 0, then the actions are applied
LoadStruct(st, form_id, rec, payload) ==
    LET hits == {f \in AcceptedFormats(st) : FmtSize(f) = Len(payload)} IN
    IF hits = {} THEN Raise("ModSizeError")
    ELSE LET f == CHOOSE g \in hits : TRUE
             unpacked == UnpackAll(f, payload)
             padded == [i \in 1..Len(st.attrs) |->
                          IF i <= Len(unpacked) THEN unpacked[i]
                          ELSE PInt(0)]
             acted == [i \in 1..Len(st.attrs) |->
                          ApplyAction(st.actions[i], form_id, padded[i])]
         IN  IF \E i \in 1..Len(st.attrs) : IsRaise(acted[i])
             THEN acted[CHOOSE i \in 1..Len(st.attrs) : IsRaise(acted[i])]
             ELSE Ok(SetAttrs(rec, st.attrs,
                              [i \in 1..Len(st.attrs) |-> Val(acted[i])]))

\* the value an attribute is packed from: a form identifier is dumped
DumpValue(action, sm, v) ==
    IF action = "FID"
    THEN IF IsPFid(v)
         THEN LET d == FormId_dump(sm, v[2]) IN
              IF IsOk(d) THEN Ok(PInt(Val(d))) ELSE d
         ELSE Raise("AttributeError")
    ELSE Ok(v)

\* MelStruct.pack_subrecord_data: always the full current format
DumpStruct(st, sm, rec) ==
    LET vals == [i \in 1..Len(st.attrs) |->
                    DumpValue(st.actions[i], sm, rec[st.attrs[i]])]
    IN  IF \E i \in 1..Len(st.attrs) : IsRaise(vals[i])
        THEN vals[CHOOSE i \in 1..Len(st.attrs) : IsRaise(vals[i])]
        ELSE PackAll(st.fmt, [i \in 1..Len(st.attrs) |-> Val(vals[i])])

-----------------------------------------------------------------------------
(* MelCtda / MelCtdaFo3: a condition                                       *)

\* bush.game.condition_function_data: function index -> parameter types
\* (0 unknown, 1 int, 2 FormID, 3 float)
GetVatsValueIfunc == 408
condition_function_data ==
    (1 :> <<2, 0>>) @@ (14 :> <<1, 3>>) @@ (GetVatsValueIfunc :> <<1, 0>>)

_param_types(t) ==
    CASE t = 0 -> "4s" [] t = 1 -> "i" [] t = 2 -> "I" [] t = 3 -> "f"

\* (mutant) old versions made of the parameters and the suffix only
full_old_versions_no_prefix(prefix_fmt, fmt_list, old_suffix_fmts) ==
    {fmt_list \o f : f \in old_suffix_fmts}

\* _build_struct: the old versions are prefix + parameters + old suffix
full_old_versions(prefix_fmt, fmt_list, old_suffix_fmts) ==
    {prefix_fmt \o fmt_list \o f : f \in old_suffix_fmts}

\* MelCtda._build_struct with MelCtda._build_params
_build_struct(func_data, suffix_fmt, suffix_elements, old_suffix_fmts) ==
    LET prefix_fmt == <<"B", "3s", "4s", "H", "2s">>
        prefix_elements == <<<<"Flags", "operFlag">>, <<"", "unused1">>,
                             <<"", "compValue">>, <<"", "ifunc">>,
                             <<"", "unused2">>>>
        fmt_list == [i \in 1..Len(func_data) |-> _param_types(func_data[i])]
        func_elements == [i \in 1..Len(func_data) |->
                            IF func_data[i] = 2
                            THEN <<"FID", IF i = 1 THEN "param1" ELSE "param2">>
                            ELSE <<"", IF i = 1 THEN "param1" ELSE "param2">>]
        elements == prefix_elements \o func_elements \o suffix_elements
    IN  Struct(prefix_fmt \o fmt_list \o suffix_fmt,
               [i \in 1..Len(elements) |-> elements[i][2]],
               [i \in 1..Len(elements) |-> elements[i][1]],
               full_old_versions(prefix_fmt, fmt_list, old_suffix_fmts))

\* MelConditionList: MelCtdaFo3(suffix_fmt=['2I', 'i'], suffix_elements=
\* ['runOn', (FID, 'reference'), 'param3'], old_suffix_fmts={'2I', 'I', ''})
element_mapping ==
    [f \in DOMAIN condition_function_data |->
        _build_struct(condition_function_data[f], <<"I", "I", "i">>,
                      <<<<"", "runOn">>, <<"FID", "reference">>,
                        <<"", "param3">>>>,
                      {<<"I", "I">>, <<"I">>, <<>>})]

\* operFlag.use_global: bit 2 of the flags
use_global(operFlag) == (operFlag[2] \div 4) % 2 = 1

\* u'fI'[record.operFlag.use_global]
CompValueFmt(rec) == IF use_global(rec.operFlag) THEN "I" ELSE "f"
\* (mutant) the format of compValue with the two letters swapped
CompValueFmt_swapped(rec) == IF use_global(rec.operFlag) THEN "f" ELSE "I"

\* MelCtdaFo3._vats_param2_fmt, a defaultdict with '4s' for a missing key
_vats_param2_fmt(p1) ==
    IF p1 \in {0, 1, 2, 3, 6, 9, 10, 15, 18, 19, 20} THEN "I"
    ELSE IF p1 = 5 THEN "i" ELSE "4s"

\* a record before any load: what setDefault leaves
EmptyCond ==
    [operFlag |-> PInt(0), unused1 |-> PBytes(Zeros(3)),
     compValue |-> PInt(0), ifunc |-> PInt(0), unused2 |-> PBytes(Zeros(2)),
     param1 |-> PInt(0), param2 |-> PInt(0), runOn |-> PInt(0),
     reference |-> PInt(0), param3 |-> PInt(0)]

\* MelUnion.load_mel with the PartialLoadDecider of MelCtda: the function
\* index is read from bytes 8..9 of the chunk, the struct mapped from it
\* loads the whole chunk; a key without a struct is an error
MelUnion_load_mel(form_id, rec, payload) ==
    IF Len(payload) < 10 THEN Raise("ModReadError")
    ELSE LET key == struct_unpack("H", Slice(payload, 9, 2))[2] IN
         IF key \notin DOMAIN element_mapping THEN Raise("ArgumentError")
         ELSE LoadStruct(element_mapping[key], form_id, rec, payload)

\* MelCtda.load_mel
MelCtda_load_mel(form_id, rec, payload) ==
    LET r == MelUnion_load_mel(form_id, rec, payload) IN
    IF IsRaise(r) THEN r
    ELSE Ok([Val(r) EXCEPT !.compValue =
                struct_unpack(CompValueFmt(Val(r)), Val(r).compValue[2])])

\* MelCtdaFo3.load_mel
MelCtdaFo3_load_mel(form_id, rec, payload) ==
    LET r == MelCtda_load_mel(form_id, rec, payload) IN
    IF IsRaise(r) THEN r
    ELSE IF Val(r).ifunc = PInt(GetVatsValueIfunc)
    THEN Ok([Val(r) EXCEPT !.param2 =
                struct_unpack(_vats_param2_fmt(Val(r).param1[2]),
                              Val(r).param2[2])])
    ELSE r

\* MelUnion.dumpData: the struct mapped from record.ifunc dumps the record
MelUnion_dumpData(sm, rec) ==
    IF ~IsPInt(rec.ifunc) \/ rec.ifunc[2] \notin DOMAIN element_mapping
    THEN Raise("ArgumentError")
    ELSE DumpStruct(element_mapping[rec.ifunc[2]], sm, rec)

\* the outcome of a dump: the record as the dump leaves it and the payload
\* written (or the exception raised)
Dumped(rec, r) == [rec |-> rec, out |-> r]

\* (mutant) a dump that packs compValue by the other format
MelCtda_dumpData_swapped(sm, rec) ==
    LET packed == struct_pack(CompValueFmt_swapped(rec), rec.compValue) IN
    IF IsRaise(packed) THEN Dumped(rec, packed)
    ELSE LET rec1 == [rec EXCEPT !.compValue = PBytes(Val(packed))] IN
         Dumped(rec1, MelUnion_dumpData(sm, rec1))

\* MelCtda.dumpData: compValue is packed in place, then the union dumps
MelCtda_dumpData(sm, rec) ==
    LET packed == struct_pack(CompValueFmt(rec), rec.compValue) IN
    IF IsRaise(packed) THEN Dumped(rec, packed)
    ELSE LET rec1 == [rec EXCEPT !.compValue = PBytes(Val(packed))] IN
         Dumped(rec1, MelUnion_dumpData(sm, rec1))

\* MelCtdaFo3.dumpData: GetVATSValue's param2 is packed in place first
MelCtdaFo3_dumpData(sm, rec) ==
    IF rec.ifunc = PInt(GetVatsValueIfunc)
    THEN LET fmt == IF IsPInt(rec.param1)
                    THEN _vats_param2_fmt(rec.param1[2]) ELSE "4s"
             packed == struct_pack(fmt, rec.param2)
         IN  IF IsRaise(packed) THEN Dumped(rec, packed)
             ELSE MelCtda_dumpData(sm,
                      [rec EXCEPT !.param2 = PBytes(Val(packed))])
    ELSE MelCtda_dumpData(sm, rec)

-----------------------------------------------------------------------------
(* The condition machine: a condition chunk is loaded in a load session,   *)
(* dumped in a dump session and the dumped payload is loaded again from    *)
(* the plugin that was written.                                            *)

\* operFlag and compValue on disk: do_or with a float, use_global with a
\* global's short form id
FlagComp == {<<1, <<0, 0, 128, 63>>>>, <<4, <<3, 0, 0, 1>>>>}
\* param1 on disk: 3, 5, 0x01000003
ParamBytes == {<<3, 0, 0, 0>>, <<5, 0, 0, 0>>, <<3, 0, 0, 1>>}
\* param2 on disk
Param2Bytes == <<0, 0, 128, 63>>
\* function indices on disk; 9 is not in condition_function_data
IfuncsOnDisk == {1, 9, 14, GetVatsValueIfunc}
\* runOn = 2, reference = 0x01000003, param3 = -1
FullSuffix == LE(2, 4) \o <<3, 0, 0, 1>> \o LE(-1, 4)
\* the suffix on disk: current, the three old versions, a size of no version
Suffixes == {FullSuffix, Slice(FullSuffix, 1, 8), Slice(FullSuffix, 1, 4),
             <<>>, <<0, 0>>}

CtdaPayload(flag, cv, ifunc, p1, p2, suffix) ==
    <<flag>> \o Zeros(3) \o cv \o LE(ifunc, 2) \o Zeros(2) \o p1 \o p2
    \o suffix

\* a CTDA chunk is read into a new record from the plugin being loaded
LoadCond ==
    /\ phase = "new"
    /\ FORM_ID # NoFormId
    /\ \E fc \in FlagComp, ifunc \in IfuncsOnDisk, p1 \in ParamBytes,
          suffix \in Suffixes :
          LET payload == CtdaPayload(fc[1], fc[2], ifunc, p1, Param2Bytes,
                                     suffix) IN
          /\ chunk' = payload
          /\ cond' = MelCtdaFo3_load_mel(FORM_ID, EmptyCond, payload)
    /\ phase' = "loaded"
    /\ UNCHANGED <<fidVars, snap, out, outMs, elemVars>>

\* the loaded condition is dumped
DumpCond ==
    /\ phase \in {"loaded", "reloaded"}
    /\ IsOk(cond)
    /\ LET d == MelCtdaFo3_dumpData(short_mapper, Val(cond)) IN
       /\ snap' = cond
       /\ cond' = Ok(d.rec)
       /\ out' = d.out
    /\ outMs' = short_mapper
    /\ phase' = "dumped"
    /\ UNCHANGED <<fidVars, chunk, elemVars>>

\* the plugin that was written is opened: its masters are the output masters
EnterReload ==
    /\ FORM_ID = NoFormId
    /\ phase = "dumped"
    /\ IsOk(out)
    /\ FORM_ID' = from_masters(outMs, FALSE)
    /\ res' = Idle
    /\ UNCHANGED <<short_mapper, fa, fb, ctdaVars, elemVars>>

\* the dumped payload is loaded from the plugin that was written
ReloadCond ==
    /\ phase = "dumped"
    /\ IsOk(out)
    /\ FORM_ID = from_masters(outMs, FALSE)
    /\ chunk' = Val(out)
    /\ cond' = MelCtdaFo3_load_mel(FORM_ID, EmptyCond, Val(out))
    /\ phase' = "reloaded"
    /\ UNCHANGED <<fidVars, snap, out, outMs, elemVars>>

CtdaNext ==
    \/ EnterLoad \/ ExitLoad \/ EnterDump \/ ExitDump
    \/ LoadCond \/ DumpCond \/ EnterReload \/ ReloadCond

SpecCtda == FidInit /\ [][CtdaNext]_vars

-----------------------------------------------------------------------------
(* Counters, groups and sorted collections.  A record is a function from   *)
(* attribute names to values; a collection is a sequence of items; an item *)
(* of a group with attributes is itself such a function.                   *)

\* longest collection of the model
MaxItems == 3

MelCounter(sig, attr, counts) ==
    [el |-> "counter", sig |-> sig, attr |-> attr, counts |-> counts]
MelGroups(attr, children) ==
    [el |-> "groups", attr |-> attr, children |-> children]
MelSorted(sorted_mel, sort_by_attrs) ==
    [el |-> "sorted", mel |-> sorted_mel, sort_by_attrs |-> sort_by_attrs]

\* the sort key of an item: the tuple of the declared attributes, the item
\* itself when none is declared
SortKey(sort_by_attrs, item) ==
    IF sort_by_attrs = <<>> THEN <<item>>
    ELSE [i \in 1..Len(sort_by_attrs) |-> item[sort_by_attrs[i]]]

\* v < w for two values of one type
ValLt(sm, v, w) ==
    IF IsPFid(v) THEN Py_lt(sm, v[2], w[2]) ELSE Ok(v[2] < w[2])

\* the one element of a singleton: Only({F(x) : x \in {e}}) is F(e) with e
\* evaluated once
Only(S) == CHOOSE r \in S : TRUE

\* k1 < k2 for two tuples of one length: the first elements that are not
\* == decide
TupleLtAt(sm, k1, k2, differ) ==
    IF differ = {} THEN Ok(FALSE)
    ELSE Only({ValLt(sm, k1[i], k2[i]) :
                 i \in {d \in differ : \A e \in differ : d <= e}})
TupleLt(sm, k1, k2) ==
    Only({TupleLtAt(sm, k1, k2, differ) :
            differ \in {{i \in 1..Len(k1) : ~ValEq(k1[i], k2[i])}}})

\* a stable sort by the outcomes lt[i][j] of items[i] < items[j]: the
\* exception a comparison raises, else every item behind the items that are
\* less than it and behind the earlier items it is not less than
StableSort(items, lt) ==
    IF \E i, j \in 1..Len(items) : i # j /\ IsRaise(lt[i][j])
    THEN Only({lt[p[1]][p[2]] :
                 p \in {CHOOSE q \in (1..Len(items)) \X (1..Len(items)) :
                           q[1] # q[2] /\ IsRaise(lt[q[1]][q[2]])}})
    ELSE Ok([r \in 1..Len(items) |->
               items[CHOOSE i \in 1..Len(items) :
                        Cardinality({j \in 1..Len(items) :
                                        \/ Val(lt[j][i])
                                        \/ j < i /\ ~Val(lt[i][j])}) = r - 1]])

\* list.sort(key=attrgetter(*sort_by_attrs))
ListSort(sm, sort_by_attrs, items) ==
    Only({StableSort(items, lt) :
            lt \in {[i \in 1..Len(items) |-> [j \in 1..Len(items) |->
                       TupleLt(sm, SortKey(sort_by_attrs, items[i]),
                               SortKey(sort_by_attrs, items[j]))]]}})

\* the record with a collection as its dump left it, and what was written
PutBack(rec, attr, d) == Dumped([rec EXCEPT ![attr] = d.rec], d.out)
\* a dump that goes on after an earlier one
Join(p, h) ==
    IF IsRaise(h.out) THEN h
    ELSE Dumped(h.rec, Ok(Val(p.out) \o Val(h.out)))

\* MelCounter.dumpData: the counter is set to the length of the attribute
\* it counts and written, or nothing is written when that length is 0
DumpCounter(mel, rec, n) ==
    IF n = 0 THEN Dumped(rec, Ok(<<>>))
    ELSE Dumped([rec EXCEPT ![mel.attr] = n],
                Ok(<<<<mel.sig, Val(struct_pack("I", PInt(n)))>>>>))

\* MelSorted.dumpData: the collection is sorted in place, then dumped
DumpSorted(ItemsDump(_, _, _), sm, mel, rec, s) ==
    IF IsRaise(s) THEN Dumped(rec, s)
    ELSE Only({PutBack(rec, mel.mel.attr, d) :
                 d \in {ItemsDump(sm, mel.mel, Val(s))}})

\* the dump of one element; MelGroups.dumpData: the items in list order
DumpMelWith(ItemsDump(_, _, _), sm, mel, rec) ==
    CASE mel.el = "counter" -> DumpCounter(mel, rec, Len(rec[mel.counts]))
      [] mel.el = "groups" ->
           Only({PutBack(rec, mel.attr, d) :
                   d \in {ItemsDump(sm, mel, rec[mel.attr])}})
      [] mel.el = "sorted" ->
           Only({DumpSorted(ItemsDump, sm, mel, rec, s) :
                   s \in {ListSort(sm, mel.sort_by_attrs,
                                   rec[mel.mel.attr])}})

\* the items of a group without elements of their own: one chunk each
LeafItems(sm, mel, items) ==
    Dumped(items, Ok([i \in 1..Len(items) |-> <<mel.attr, items[i]>>]))

\* the next element of an item dumps unless an earlier one raised
ItemStep(sm, mel, p) ==
    IF IsRaise(p.out) THEN p
    ELSE Only({Join(p, h) : h \in {DumpMelWith(LeafItems, sm, mel, p.rec)}})

\* the elements of an item dump in declared order
RECURSIVE DumpItem(_, _, _)
DumpItem(sm, mels, item) ==
    IF mels = <<>> THEN Dumped(item, Ok(<<>>))
    ELSE Only({ItemStep(sm, mels[Len(mels)], p) :
                 p \in {DumpItem(sm, SubSeq(mels, 1, Len(mels) - 1), item)}})

\* the chunk written for an item carries the item as its elements leave it
ItemChunks(attr, items, each) ==
    IF \E i \in 1..Len(items) : IsRaise(each[i].out)
    THEN Dumped(items, each[CHOOSE i \in 1..Len(items) :
                               IsRaise(each[i].out)].out)
    ELSE Dumped([i \in 1..Len(items) |-> each[i].rec],
                Ok([i \in 1..Len(items) |-> <<attr, each[i].rec>>]))

\* the items of a group with elements
DumpItems(sm, mel, items) ==
    Only({ItemChunks(mel.attr, items, each) :
            each \in {[i \in 1..Len(items) |->
                         DumpItem(sm, mel.children, items[i])]}})

DumpMel(sm, mel, rec) == DumpMelWith(DumpItems, sm, mel, rec)

\* the next element of a record dumps unless an earlier one raised
MelStep(sm, mel, p) ==
    IF IsRaise(p.out) THEN p
    ELSE Only({Join(p, h) : h \in {DumpMel(sm, mel, p.rec)}})

\* the elements of a MelSequential / MelSet dump in declared order
RECURSIVE DumpAll(_, _, _)
DumpAll(sm, mels, rec) ==
    IF mels = <<>> THEN Dumped(rec, Ok(<<>>))
    ELSE Only({MelStep(sm, mels[Len(mels)], p) :
                 p \in {DumpAll(sm, SubSeq(mels, 1, Len(mels) - 1), rec)}})

\* the schemas with a counter or a sorted collection
MelConditions ==
    <<MelCounter("CITC", "conditionCount", "conditions"),
      MelGroups("conditions", <<>>)>>
MelKeywords ==
    <<MelCounter("KSIZ", "keyword_count", "keywords"),
      MelSorted(MelGroups("keywords", <<>>), <<>>)>>
MreLeveledList ==
    <<MelCounter("INDX", "entry_count", "entries"),
      MelGroups("entries", <<>>)>>
\* (mutant) a counter that counts the other collection of the cell
MreCell_miscounted ==
    <<MelGroups("persistent_children", <<>>),
      MelCounter("NAM0", "temporary_children_counter", "persistent_children"),
      MelGroups("temporary_children", <<>>)>>
MreCell ==
    <<MelGroups("persistent_children", <<>>),
      MelCounter("NAM0", "temporary_children_counter", "temporary_children"),
      MelGroups("temporary_children", <<>>)>>
MreLens ==
    <<MelCounter("LFSP", "sprite_count", "lensFlareSprites"),
      MelGroups("lensFlareSprites", <<>>)>>
\* (mutant) locations sorted without the indirect key
MelLscrLocations_no_indirect ==
    <<MelSorted(MelGroups("locations", <<>>),
                <<"direct", "gridy", "gridx">>)>>
MelLscrLocations ==
    <<MelSorted(MelGroups("locations", <<>>),
                <<"direct", "indirect", "gridy", "gridx">>)>>
MelActorSounds ==
    <<MelSorted(MelGroups("sounds",
                    <<MelSorted(MelGroups("sound_types", <<>>),
                                <<"sound">>)>>),
                <<"type">>)>>

Schemas == {MelConditions, MelKeywords, MreLeveledList, MreCell, MreLens,
            MelLscrLocations, MelActorSounds}

\* the attribute an element of a record sets
TopAttr(mel) == IF mel.el = "sorted" THEN mel.mel.attr ELSE mel.attr
IsCollection(mel) == mel.el \in {"groups", "sorted"}
CollectionAttrs(mels) ==
    {TopAttr(mels[i]) : i \in {j \in 1..Len(mels) : IsCollection(mels[j])}}
CounterAttrs(mels) ==
    {mels[i].attr : i \in {j \in 1..Len(mels) : mels[j].el = "counter"}}

\* the items the plugin being loaded can hold in a collection
Fid(form_id, x) == PFid(Val(FID(form_id, x)))
Loc(form_id, d, i, y, x) ==
    [direct |-> Fid(form_id, d), indirect |-> Fid(form_id, i),
     gridy |-> PInt(y), gridx |-> PInt(x)]
Snd(form_id, s, c) == [sound |-> Fid(form_id, s), chance |-> PInt(c)]
Sounds(t, sts) == [type |-> PInt(t), sound_types |-> sts]
ItemsOf(form_id, attr) ==
    CASE attr = "keywords" -> {Fid(form_id, 3), Fid(form_id, 16777219)}
      [] attr = "locations" ->
           {Loc(form_id, 16777219, 5, 0, 0), Loc(form_id, 3, 5, 0, 0),
            Loc(form_id, 3, 16777219, 0, 0)}
      [] attr = "sounds" ->
           {Sounds(1, <<Snd(form_id, 16777219, 1), Snd(form_id, 3, 1)>>),
            Sounds(0, <<Snd(form_id, 3, 2), Snd(form_id, 3, 1)>>),
            Sounds(1, <<Snd(form_id, 3, 1)>>)}
      [] attr = "persistent_children" -> {PInt(9)}
      [] OTHER -> {PInt(1)}

\* the item a caller adds to a collection
NewItem(attr) ==
    CASE attr = "keywords" -> PFid(from_tuple("Foo.esm", 3))
      [] attr = "locations" ->
           [direct |-> PFid(from_tuple("Foo.esm", 3)),
            indirect |-> PFid(from_tuple("Foo.esm", 5)),
            gridy |-> PInt(0), gridx |-> PInt(-1)]
      [] attr = "sounds" -> Sounds(0, <<>>)
      [] OTHER -> PInt(3)

ListsOf(items, n) == UNION {[1..k -> items] : k \in 0..n}

\* the values an attribute can hold after a load: a counter holds what was
\* on disk, a collection the items that were parsed, in file order
LoadedValues(form_id, mels, attr) ==
    IF attr \in CounterAttrs(mels) THEN {0, 7}
    ELSE IF attr = "persistent_children"
    THEN ListsOf(ItemsOf(form_id, attr), 1)
    ELSE ListsOf(ItemsOf(form_id, attr), MaxItems)

\* the records the first n elements of a schema can load
RECURSIVE LoadedBy(_, _, _)
LoadedBy(form_id, mels, n) ==
    IF n = 0 THEN {<<>>}
    ELSE {p[1] @@ (TopAttr(mels[n]) :> p[2]) :
             p \in LoadedBy(form_id, mels, n - 1)
                   \X LoadedValues(form_id, mels, TopAttr(mels[n]))}
LoadedRecords(form_id, mels) == LoadedBy(form_id, mels, Len(mels))

\* a record is loaded from the plugin being loaded
LoadRecord ==
    /\ schema = <<>>
    /\ FORM_ID # NoFormId
    /\ \E mels \in Schemas :
          /\ schema' = mels
          /\ \E r \in LoadedRecords(FORM_ID, mels) : record' = Ok(r)
    /\ UNCHANGED <<fidVars, ctdaVars, normVars, melVars, before, written,
                   writtenBy>>

\* the caller appends an item to a collection of the record
AppendItem ==
    /\ IsOk(record)
    /\ \E a \in CollectionAttrs(schema) :
          /\ Len(Val(record)[a]) < MaxItems
          /\ record' = Ok([Val(record) EXCEPT ![a] = Append(@, NewItem(a))])
    /\ before' = NoResult
    /\ written' = NoResult
    /\ writtenBy' = <<>>
    /\ UNCHANGED <<fidVars, ctdaVars, normVars, melVars, schema>>

\* the caller removes the last item of a collection of the record
RemoveItem ==
    /\ IsOk(record)
    /\ \E a \in CollectionAttrs(schema) :
          /\ Val(record)[a] # <<>>
          /\ record' = Ok([Val(record) EXCEPT
                              ![a] = SubSeq(@, 1, Len(@) - 1)])
    /\ before' = NoResult
    /\ written' = NoResult
    /\ writtenBy' = <<>>
    /\ UNCHANGED <<fidVars, ctdaVars, normVars, melVars, schema>>

\* the record is dumped in a dump session
DumpRecord ==
    /\ IsOk(record)
    /\ short_mapper # NoMapper
    /\ before' = record
    /\ \E d \in {DumpAll(short_mapper, schema, Val(record))} :
          /\ record' = Ok(d.rec)
          /\ written' = d.out
    /\ writtenBy' = short_mapper
    /\ UNCHANGED <<fidVars, ctdaVars, normVars, melVars, schema>>

CollNext ==
    \/ EnterLoad \/ ExitLoad \/ EnterDump \/ ExitDump
    \/ LoadRecord \/ AppendItem \/ RemoveItem \/ DumpRecord

SpecColl == FidInit /\ [][CollNext]_vars

-----------------------------------------------------------------------------
(* Elements that normalise on dump: MelMODS, MelRaceVoices, MelActionFlags. *)
(* pack_subrecord_data returns the payload of the chunk, or None and then   *)
(* no chunk is written; an attribute without a chunk keeps its default.     *)

\* most entries of a MODS chunk of the model
MaxMods == 2

PNone == <<"none", 0>>
PList(l) == <<"list", l>>
\* the Python object a value stands for
ToObj(v) == IF IsPFid(v) THEN v[2] ELSE PyInt(v[2])
\* v == w
PyEquals(v, w) == Py_eq(ToObj(v), ToObj(w)) = Ok(TRUE)

NormMels == {"MelMODS", "MelRaceVoices", "MelActionFlags"}

\* a < b for two byte strings
BytesLt(a, b) ==
    \E i \in 1..Len(b) :
       /\ \A j \in 1..(i - 1) : j <= Len(a) /\ a[j] = b[j]
       /\ i > Len(a) \/ a[i] < b[i]

\* MelMODS.load_mel: a count, then per entry a length-prefixed string, a form
\* id and an index
RECURSIVE ReadMods(_, _, _)
ReadMods(form_id, b, count) ==
    IF count = 0 THEN <<>>
    ELSE LET n == FromLE(Slice(b, 1, 4)) IN
         <<<<Slice(b, 5, n),
             PFid(Val(FID(form_id, FromLE(Slice(b, 5 + n, 4))))),
             FromLE(Slice(b, 9 + n, 4))>>>>
         \o ReadMods(form_id, Slice(b, 13 + n, Len(b) - 12 - n), count - 1)
MelMODS_load_mel(form_id, rec, payload) ==
    Ok([rec EXCEPT !["mods_data"] =
           PList(ReadMods(form_id, Slice(payload, 5, Len(payload) - 4),
                          FromLE(Slice(payload, 1, 4))))])

\* key=lambda e: (e[0], e[2])
ModsLt(e1, e2) ==
    Ok(BytesLt(e1[1], e2[1]) \/ (e1[1] = e2[1] /\ e1[3] < e2[3]))

\* the entries packed one after the other
RECURSIVE PackMods(_, _)
PackMods(sm, l) ==
    IF l = <<>> THEN Ok(<<>>)
    ELSE LET d == DumpValue("FID", sm, l[1][2])
             t == PackMods(sm, Tail(l))
         IN  IF IsRaise(d) THEN d
             ELSE IF IsRaise(t) THEN t
             ELSE Ok(LE(Len(l[1][1]), 4) \o l[1][1] \o LE(Val(d)[2], 4)
                     \o LE(l[1][3], 4) \o Val(t))

\* MelMODS.pack_subrecord_data: None stays unwritten, a list is sorted in
\* place by name and index and written behind its length
MelMODS_packed(sm, rec, sorted) ==
    Only({IF IsRaise(p) THEN Dumped(rec, p)
          ELSE Dumped(rec, Ok(PBytes(LE(Len(sorted), 4) \o Val(p)))) :
             p \in {PackMods(sm, sorted)}})
MelMODS_pack_subrecord_data(sm, rec) ==
    IF rec["mods_data"] = PNone THEN Dumped(rec, Ok(PNone))
    ELSE Only({MelMODS_packed(sm, [rec EXCEPT !["mods_data"] = PList(l)], l) :
                 l \in {Val(StableSort(rec["mods_data"][2],
                          [i \in 1..Len(rec["mods_data"][2]) |->
                             [j \in 1..Len(rec["mods_data"][2]) |->
                                ModsLt(rec["mods_data"][2][i],
                                       rec["mods_data"][2][j])]]))}})

\* the struct MelRaceVoices is declared with: two form ids
RaceVoices ==
    Struct(<<"I", "I">>, <<"maleVoice", "femaleVoice">>, <<"FID", "FID">>, {})

\* record.maleVoice = 0 if it == record.fid
ZeroIfSelf(rec, attr) ==
    IF PyEquals(rec[attr], PFid(rec["fid"][2]))
    THEN [rec EXCEPT ![attr] = PInt(0)] ELSE rec
\* if (record.maleVoice, record.femaleVoice) != (0, 0): pack, else None
MelRaceVoices_packed(sm, rec) ==
    IF ~(PyEquals(rec["maleVoice"], PInt(0))
         /\ PyEquals(rec["femaleVoice"], PInt(0)))
    THEN Dumped(rec, Only({IF IsRaise(p) THEN p ELSE Ok(PBytes(Val(p))) :
                                p \in {DumpStruct(RaceVoices, sm, rec)}}))
    ELSE Dumped(rec, Ok(PNone))
MelRaceVoices_pack_subrecord_data(sm, rec) ==
    MelRaceVoices_packed(sm, ZeroIfSelf(ZeroIfSelf(rec, "maleVoice"),
                                        "femaleVoice"))

\* MelUInt32Flags: the value no flag is set in
_flag_default == 0
\* MelActionFlags.pack_subrecord_data
MelActionFlags_pack_subrecord_data(sm, rec) ==
    IF rec["action_flags"] # PInt(_flag_default)
    THEN Dumped(rec,
                Ok(PBytes(Val(struct_pack("I", rec["action_flags"])))))
    ELSE Dumped(rec, Ok(PNone))

\* setDefault: a record with the element's attributes and no chunk loaded
NormDefault(mel, fid) ==
    CASE mel = "MelMODS" -> [fid |-> PFid(fid), mods_data |-> PNone]
      [] mel = "MelRaceVoices" ->
           [fid |-> PFid(fid), maleVoice |-> PFid(ZERO_FID),
            femaleVoice |-> PFid(ZERO_FID)]
      [] mel = "MelActionFlags" ->
           [fid |-> PFid(fid), action_flags |-> PInt(_flag_default)]

\* load_mel of the element
NormLoad(mel, form_id, rec, payload) ==
    CASE mel = "MelMODS" -> MelMODS_load_mel(form_id, rec, payload)
      [] mel = "MelRaceVoices" -> LoadStruct(RaceVoices, form_id, rec, payload)
      [] mel = "MelActionFlags" ->
           Ok([rec EXCEPT !["action_flags"] = struct_unpack("I", payload)])

\* the record a plugin holds under a header form id, with or without the
\* element's chunk
LoadNormRecord(mel, form_id, short, c) ==
    IF c = PNone THEN Ok(NormDefault(mel, NewOf(form_id, short)))
    ELSE NormLoad(mel, form_id, NormDefault(mel, NewOf(form_id, short)), c[2])

\* pack_subrecord_data of the element
NormPack(mel, sm, rec) ==
    CASE mel = "MelMODS" -> MelMODS_pack_subrecord_data(sm, rec)
      [] mel = "MelRaceVoices" -> MelRaceVoices_pack_subrecord_data(sm, rec)
      [] mel = "MelActionFlags" -> MelActionFlags_pack_subrecord_data(sm, rec)

\* what a dump of the record writes: the header's form id and the chunk
NormWritten(h, d) ==
    IF IsRaise(h) THEN h
    ELSE IF IsRaise(d.out) THEN d.out
    ELSE Ok([fid |-> Val(h)[2], chunk |-> Val(d.out)])

\* the chunks a plugin can hold for an element
ModsOnDisk == {<<<<66>>, 3, 0>>, <<<<65>>, 16777219, 1>>,
               <<<<65>>, 3, 0>>, <<<<65>>, 16777219, 0>>}
RECURSIVE ModsBytes(_)
ModsBytes(l) ==
    IF l = <<>> THEN <<>>
    ELSE LE(Len(l[1][1]), 4) \o l[1][1] \o LE(l[1][2], 4) \o LE(l[1][3], 4)
         \o ModsBytes(Tail(l))
VoicesOnDisk == {0, 3, 16777219}
FlagsOnDisk == {0, 1, 8, 16}
NormOnDisk(mel) ==
    {PNone} \cup
    CASE mel = "MelMODS" ->
           {PBytes(LE(Len(l), 4) \o ModsBytes(l)) :
              l \in ListsOf(ModsOnDisk, MaxMods)}
      [] mel = "MelRaceVoices" ->
           {PBytes(LE(m, 4) \o LE(f, 4)) : m, f \in VoicesOnDisk}
      [] mel = "MelActionFlags" -> {PBytes(LE(v, 4)) : v \in FlagsOnDisk}

\* a record is loaded from the plugin being loaded
LoadNorm ==
    /\ normPhase = "new"
    /\ FORM_ID # NoFormId
    /\ \E mel \in NormMels, short \in {3, 16777219} :
          /\ normMel' = mel
          /\ \E c \in NormOnDisk(mel) :
                normRec' = LoadNormRecord(mel, FORM_ID, short, c)
    /\ normPhase' = "loaded"
    /\ UNCHANGED <<fidVars, ctdaVars, collVars, melVars, dumps>>

\* the record is dumped; the second time in a dump session like the first
DumpNorm ==
    /\ normPhase \in {"loaded", "reloaded"}
    /\ IsOk(normRec)
    /\ short_mapper # NoMapper
    /\ normPhase = "reloaded" => short_mapper = dumps[1].ms
    /\ \E d \in {NormPack(normMel, short_mapper, Val(normRec))} :
          /\ normRec' = Ok(d.rec)
          /\ dumps' = Append(dumps,
                  [ms |-> short_mapper,
                   out |-> NormWritten(DumpValue("FID", short_mapper,
                                                 Val(normRec)["fid"]), d)])
    /\ normPhase' = IF normPhase = "loaded" THEN "dumped" ELSE "redumped"
    /\ UNCHANGED <<fidVars, ctdaVars, collVars, melVars, normMel>>

\* the plugin that was written is opened: its masters are the output masters
ReopenWritten ==
    /\ FORM_ID = NoFormId
    /\ normPhase = "dumped"
    /\ IsOk(dumps[1].out)
    /\ FORM_ID' = from_masters(dumps[1].ms, FALSE)
    /\ res' = Idle
    /\ UNCHANGED <<short_mapper, fa, fb, ctdaVars, elemVars>>

\* the record is loaded from the plugin that was written
ReloadNorm ==
    /\ normPhase = "dumped"
    /\ IsOk(dumps[1].out)
    /\ FORM_ID = from_masters(dumps[1].ms, FALSE)
    /\ normRec' = LoadNormRecord(normMel, FORM_ID, Val(dumps[1].out).fid,
                                 Val(dumps[1].out).chunk)
    /\ normPhase' = "reloaded"
    /\ UNCHANGED <<fidVars, ctdaVars, collVars, melVars, normMel, dumps>>

NormNext ==
    \/ EnterLoad \/ ExitLoad \/ EnterDump \/ ExitDump
    \/ LoadNorm \/ DumpNorm \/ ReopenWritten \/ ReloadNorm

SpecNorm == FidInit /\ [][NormNext]_vars

-----------------------------------------------------------------------------
(* Claims about form identifiers                                           *)

HighByte(o) == o.short_fid \div 16777216
Low24(o) == o.short_fid % 16777216

\* C6 (as stated): under a load context over M, a FormId built from a short
\* value whose high byte h is below len(M) has long form (M[h], low 24 bits).
C6_AsStated ==
    (res.op = "long_fid" /\ fa.cls = "_FormID"
        /\ HighByte(fa) < Len(fa.masters))
    => res.r = Ok(<<"t", fa.masters[HighByte(fa) + 1], Low24(fa)>>)

\* C6 (amended): the long form is (M[h], low 24 bits) for h < len(M) in a
\* normal plugin and for h < len(M) - 1 in an overlay plugin; an overlay
\* plugin resolves h = len(M) - 1 to the first master.
C6_LongFormResolution ==
    (res.op = "long_fid" /\ fa.cls = "_FormID"
        /\ HighByte(fa) < Len(fa.masters))
    => IF fa.overlay /\ HighByte(fa) = Len(fa.masters) - 1
       THEN res.r = Ok(<<"t", fa.masters[1], Low24(fa)>>)
       ELSE res.r = Ok(<<"t", fa.masters[HighByte(fa) + 1], Low24(fa)>>)

C6_Witness ==
    /\ res.op = "long_fid"
    /\ fa = NewOf(from_masters(<<"Foo.esm", "Bar.esp">>, FALSE), 16777219)
    /\ res.r = Ok(<<"t", "Bar.esp", 3>>)

Real(o) == o.cls \in {"_FormID", "__FormId", "_Tes4Fid"}
OwnerOf(o) == Val(long_fid(o))[2]
ObjectOf(o) == Val(long_fid(o))[3]
\* the short form under the output masters sm
ShortUnder(sm, o) ==
    ((CHOOSE i \in 1..Len(sm) : sm[i] = OwnerOf(o)) - 1) * 16777216
        + ObjectOf(o)
\* the order of the long forms: by owner name, then by object index
LongBefore(a, b) ==
    \/ NameRank(OwnerOf(a)) < NameRank(OwnerOf(b))
    \/ OwnerOf(a) = OwnerOf(b) /\ ObjectOf(a) < ObjectOf(b)
Before(a, b) ==
    IF short_mapper # NoMapper
    THEN ShortUnder(short_mapper, a) < ShortUnder(short_mapper, b)
    ELSE LongBefore(a, b)

\* C9: for real FormIds a and b the four ordering operators are decided by
\* the short forms under the output masters while a dump-time resolver is
\* active and by the long forms otherwise, and agree with each other.
C9_OrderingContract ==
    (res.op = "compare" /\ Real(fa) /\ Real(fb))
    => /\ res.cmp.lt = Ok(Before(fa, fb))
       /\ res.cmp.gt = Ok(Before(fb, fa))
       /\ res.cmp.le = Ok(~Before(fb, fa))
       /\ res.cmp.ge = Ok(~Before(fa, fb))
       /\ Val(res.cmp.lt) = ~Val(res.cmp.ge)
       /\ Val(res.cmp.gt) = ~Val(res.cmp.le)

\* a comparison the two orders decide differently
C9_Witness ==
    /\ res.op = "compare" /\ Real(fa) /\ Real(fb)
    /\ short_mapper # NoMapper
    /\ res.cmp.lt = Ok(TRUE)
    /\ LongBefore(fb, fa)

\* C10: NONE_FID compares strictly greater than every FormId and equal to
\* nothing but itself, whichever operand it is, with or without a dump-time
\* resolver.
C10_NoneSortsLast ==
    res.op = "compare" =>
      /\ (IsFormId(fa) /\ fb = NONE_FID)
            => /\ res.cmp.lt = Ok(TRUE) /\ res.cmp.ne = Ok(TRUE)
               /\ res.cmp.eq = Ok(FALSE)
      /\ (fa = NONE_FID /\ IsFormId(fb))
            => /\ res.cmp.gt = Ok(TRUE) /\ res.cmp.ne = Ok(TRUE)
               /\ res.cmp.eq = Ok(FALSE)
      /\ (fa = NONE_FID /\ fb = NONE_FID)
            => /\ res.cmp.eq = Ok(TRUE) /\ res.cmp.le = Ok(TRUE)
               /\ res.cmp.lt = Ok(FALSE)

-----------------------------------------------------------------------------
(* Unions decided by an attribute: the REGN entry.  The elements the REGN  *)
(* record wraps are declared with the record: an entry holds its type      *)
(* (RDAT), a map name (RDMP) read when the type is 4, and a music type     *)
(* (RDMD) read when the type is 7.                                         *)

PStr(b) == <<"str", b>>

MelString(sig, attr) == [el |-> "string", mel_sig |-> sig, attr |-> attr]
MelUInt32(sig, attr) == [el |-> "uint32", mel_sig |-> sig, attr |-> attr]
MelNull(sig) == [el |-> "null", mel_sig |-> sig]

\* MelUnion(element_mapping, decider=AttrValDecider(attr), fallback=...)
MelUnion(mapping, decider_attr, fallback) ==
    [el |-> "union", element_mapping |-> mapping, decider |-> decider_attr,
     fallback |-> fallback]

\* (mutant) a wrapper that reads the chunk when the type differs
MelRegnEntrySubrecord_swapped(entry_type_val, element) ==
    MelUnion(entry_type_val :> MelNull("NULL"), "entryType", element)

\* (mutant) a wrapper whose fallback is the wrapped element itself
MelRegnEntrySubrecord_no_skip(entry_type_val, element) ==
    MelUnion(entry_type_val :> element, "entryType", element)

\* MelRegnEntrySubrecord.__init__
MelRegnEntrySubrecord(entry_type_val, element) ==
    MelUnion(entry_type_val :> element, "entryType", MelNull("NULL"))

\* the unions of a REGN entry, by the signature they are registered for
RegnUnions ==
    [sig \in {"RDMP", "RDMD"} |->
        IF sig = "RDMP"
        THEN MelRegnEntrySubrecord(4, MelString("RDMP", "mapName"))
        ELSE MelRegnEntrySubrecord(7, MelUInt32("RDMD", "musicType"))]

\* an entry of the given type before its other chunks are loaded
RegnEntry(entryType) ==
    [entryType |-> PInt(entryType), mapName |-> <<"none", 0>>,
     musicType |-> PInt(0)]

\* the load of a wrapped element: the record as it leaves it
Leaf_load_mel(el, rec, payload) ==
    IF el.el = "null" THEN rec
    ELSE IF el.el = "string"
    THEN [rec EXCEPT ![el.attr] = PStr(SelectSeq(payload, LAMBDA b : b # 0))]
    ELSE [rec EXCEPT ![el.attr] = PInt(FromLE(payload))]

\* the dump of a wrapped element: the chunks it writes
Leaf_dumpData(el, rec) ==
    IF el.el = "null" THEN <<>>
    ELSE IF rec[el.attr] = <<"none", 0>> THEN <<>>
    ELSE IF el.el = "string"
    THEN <<[sig |-> el.mel_sig, data |-> rec[el.attr][2] \o <<0>>]>>
    ELSE <<[sig |-> el.mel_sig, data |-> LE(rec[el.attr][2], 4)]>>

\* AttrValDecider.decide_load / decide_dump: the value of the attribute
AttrValDecider(attr, rec) == rec[attr][2]

\* MelUnion._get_element: the element mapped from the key or the fallback
MelUnion_get_element(union, rec) ==
    LET key == AttrValDecider(union.decider, rec) IN
    IF key \in DOMAIN union.element_mapping THEN union.element_mapping[key]
    ELSE union.fallback

\* MelUnion.load_mel with an attribute decider: the record as the chosen
\* element leaves it, and the elements whose load was invoked
MelRegn_load_mel(union, rec, payload) ==
    LET element == MelUnion_get_element(union, rec) IN
    [rec |-> Leaf_load_mel(element, rec, payload), invoked |-> <<element>>]

\* MelUnion.dumpData with an attribute decider
MelRegn_dumpData(union, rec) ==
    Leaf_dumpData(MelUnion_get_element(union, rec), rec)

\* the entry types of the model: map, sound, and one no union is built for
EntryTypes == {4, 7, 9}
\* the chunks of an entry on disk: the name "ab" or "b", the music type 1 or 2
RegnChunks ==
    {[sig |-> "RDMP", data |-> <<97, 98, 0>>],
     [sig |-> "RDMP", data |-> <<98, 0>>],
     [sig |-> "RDMD", data |-> LE(1, 4)],
     [sig |-> "RDMD", data |-> LE(2, 4)]}

\* the RDAT chunk of an entry was loaded: a new entry of that type
NewRegnEntry ==
    /\ \E t \in EntryTypes : target' = RegnEntry(t)
    /\ melSet' = "REGN"
    /\ effect' = NoEffect
    /\ UNCHANGED <<fidVars, ctdaVars, collVars, normVars, _last_indx, flags>>

\* a chunk of the entry is loaded by the union registered for its signature
LoadRegnChunk ==
    /\ melSet = "REGN"
    /\ \E c \in RegnChunks :
          LET l == MelRegn_load_mel(RegnUnions[c.sig], target, c.data) IN
          /\ target' = l.rec
          /\ effect' = [op |-> "load", sig |-> c.sig, data |-> c.data,
                        was |-> target, invoked |-> l.invoked]
    /\ UNCHANGED <<fidVars, ctdaVars, collVars, normVars, melSet, _last_indx,
                   flags>>

\* the entry is dumped: each union in turn
DumpRegnEntry ==
    /\ melSet = "REGN"
    /\ effect' = [op |-> "dump", was |-> target,
                  out |-> MelRegn_dumpData(RegnUnions["RDMP"], target)
                          \o MelRegn_dumpData(RegnUnions["RDMD"], target)]
    /\ UNCHANGED <<fidVars, ctdaVars, collVars, normVars, melSet, target,
                   _last_indx, flags>>

UnionNext ==
    \/ EnterLoad \/ ExitLoad \/ LoadCond
    \/ NewRegnEntry \/ LoadRegnChunk \/ DumpRegnEntry

SpecUnion == FidInit /\ [][UnionNext]_vars

-----------------------------------------------------------------------------

(* Parts of a RACE record: each part follows the INDX chunk that names it. *)
(* The RACE record declares the parts and the elements of one part: here   *)
(* INDX 0 is the head and 1 the ears, and a part holds a model path (MODL) *)
(* and an icon path (ICON).                                                *)

\* most chunks loaded into one record
MaxChunks == 2

MelGroup(attr, elements) ==
    [el |-> "group", attr |-> attr, elements |-> elements]

\* MelRaceParts.__init__: indx_to_attr and group_loaders as the record
\* passes them, and the loaders built from them
_indx_to_attr == (0 :> "head") @@ (1 :> "maleEars")
group_loaders(part_indx) ==
    <<MelString("MODL", "modPath"), MelString("ICON", "iconPath")>>
_indx_to_loader ==
    [part_indx \in DOMAIN _indx_to_attr |->
        MelGroup(_indx_to_attr[part_indx], group_loaders(part_indx))]

\* MelGroup.getLoaders: the signatures of the elements of the group
MelGroup_getLoaders(group) ==
    {group.elements[i].mel_sig : i \in 1..Len(group.elements)}

\* MelRaceParts.getLoaders: the signatures registered for the descriptor
MelRaceParts_getLoaders ==
    UNION {MelGroup_getLoaders(_indx_to_loader[i]) :
              i \in DOMAIN _indx_to_loader}

\* MelRaceParts.getSlotsUsed
MelRaceParts_getSlotsUsed == {_indx_to_attr[i] : i \in DOMAIN _indx_to_attr}

\* MelRaceParts.setDefault: every part is None
RaceDefault == [a \in MelRaceParts_getSlotsUsed |-> <<"none", 0>>]

\* MelGroup.load_mel: the part object (<<"obj", attributes>>) is created on
\* its first chunk, then the element registered for the signature loads
\* into it
MelGroup_load_mel(group, rec, sub_type, payload) ==
    LET old == IF rec[group.attr][1] = "none"
               THEN [i \in {group.elements[j].attr :
                               j \in 1..Len(group.elements)} |->
                        <<"none", 0>>]
               ELSE rec[group.attr][2]
        element == group.elements[CHOOSE j \in 1..Len(group.elements) :
                                     group.elements[j].mel_sig = sub_type]
    IN  [rec EXCEPT ![group.attr] =
            <<"obj", Leaf_load_mel(element, old, payload)>>]

\* MelRaceParts.load_mel on a descriptor whose _last_indx is last_indx: the
\* descriptor's _last_indx afterwards and the record, or the exception
MelRaceParts_load_mel(last_indx, rec, sub_type, payload) ==
    IF sub_type = "INDX"
    THEN [last_indx |-> PInt(FromLE(payload)), r |-> Ok(rec)]
    ELSE IF last_indx[1] # "int" \/ last_indx[2] \notin DOMAIN _indx_to_loader
    THEN [last_indx |-> last_indx, r |-> Raise("KeyError")]
    ELSE [last_indx |-> last_indx,
          r |-> Ok(MelGroup_load_mel(_indx_to_loader[last_indx[2]], rec,
                                     sub_type, payload))]

\* MelGroup.dumpData: nothing for a part that is None
MelGroup_dumpData(group, rec) ==
    IF rec[group.attr][1] = "none" THEN <<>>
    ELSE Leaf_dumpData(group.elements[1], rec[group.attr][2])
         \o Leaf_dumpData(group.elements[2], rec[group.attr][2])

\* MelRaceParts.dumpData: an INDX chunk and the part, by ascending INDX;
\* hasattr(record, part_attr) holds for every part, setDefault having set
\* each to None
MelRaceParts_dumpData(rec) ==
    <<[sig |-> "INDX", data |-> LE(0, 4)]>>
    \o MelGroup_dumpData(_indx_to_loader[0], rec)
    \o <<[sig |-> "INDX", data |-> LE(1, 4)]>>
    \o MelGroup_dumpData(_indx_to_loader[1], rec)

\* the chunks of a RACE record on disk
RaceChunks ==
    {[sig |-> "INDX", data |-> LE(0, 4)], [sig |-> "INDX", data |-> LE(1, 4)],
     [sig |-> "MODL", data |-> <<97, 0>>],
     [sig |-> "ICON", data |-> <<98, 0>>]}

\* the next RACE record of the plugin: a new record, the same descriptor
NewRace ==
    /\ melSet' = "RACE"
    /\ target' = Ok(RaceDefault)
    /\ effect' = [op |-> "new", seen |-> <<>>]
    /\ UNCHANGED <<fidVars, ctdaVars, collVars, normVars, _last_indx, flags>>

\* the descriptor loads the next chunk of the record
LoadRaceChunk ==
    /\ melSet = "RACE"
    /\ IsOk(target)
    /\ Len(effect.seen) < MaxChunks
    /\ \E c \in RaceChunks :
          LET l == MelRaceParts_load_mel(_last_indx, Val(target), c.sig,
                                         c.data) IN
          /\ _last_indx' = l.last_indx
          /\ target' = l.r
          /\ effect' = [op |-> "load", sig |-> c.sig, was |-> Val(target),
                        seen |-> Append(effect.seen, c)]
    /\ UNCHANGED <<fidVars, ctdaVars, collVars, normVars, melSet, flags>>

\* the record is dumped
DumpRace ==
    /\ melSet = "RACE"
    /\ IsOk(target)
    /\ effect' = [op |-> "dump", seen |-> effect.seen,
                  out |-> MelRaceParts_dumpData(Val(target))]
    /\ UNCHANGED <<fidVars, ctdaVars, collVars, normVars, melSet, target,
                   _last_indx, flags>>

\* MelCtda._ctda_mel: next(iter(self.element_mapping.values())), the struct
\* of the first function of the table
_ctda_mel ==
    element_mapping[CHOOSE f \in DOMAIN element_mapping :
                       \A g \in DOMAIN element_mapping : f <= g]

\* MelCtda.getLoaders: the one signature registered, that of _ctda_mel
MelCtda_getLoaders == {"CTDA"}

\* MelCtda.getSlotsUsed: the decider's result and the slots of _ctda_mel
MelCtda_getSlotsUsed ==
    {"_union_type"} \cup {_ctda_mel.attrs[i] : i \in 1..Len(_ctda_mel.attrs)}

RaceNext ==
    \/ EnterLoad \/ ExitLoad \/ LoadCond
    \/ NewRace \/ LoadRaceChunk \/ DumpRace

SpecRace == FidInit /\ [][RaceNext]_vars

-----------------------------------------------------------------------------

(* Flags.  The backing integer _field of a flags object is held as the set *)
(* of the positions of its set bits: x & ~mask is the set without the bits *)
(* of mask, x | mask the set with them.                                    *)

\* Flags.__setitem__: bit index of the field becomes value
Flags__setitem__(field, index, value) ==
    IF value THEN field \cup {index} ELSE field \ {index}

\* a flag(n) attribute read: bit n of the field
flag(field, n) == n \in field

\* (mutant) bit 3 is written with bit 1 and bit 1 with bit 3
_SpellFlags__setitem__both_ways(field, index, value) ==
    IF index \in {1, 3}
    THEN Flags__setitem__(Flags__setitem__(field, 1, value), 3, value)
    ELSE Flags__setitem__(field, index, value)

\* _SpellFlags.__setitem__
_SpellFlags__setitem__(field, index, value) ==
    LET set == Flags__setitem__(field, index, value) IN
    IF index = 1 THEN Flags__setitem__(set, 3, value) ELSE set

\* SpellFlags: eight positions, the fourth without a name
SpellFlagBits == 0..7

\* mask = 0b00000110000000000000000000000000 of fog_projectile_type
fog_mask == {25, 26}

\* AMgefFlagsTes4.fog_projectile_type, the getter
fog_projectile_type(field) == field \cap fog_mask = fog_mask

\* (mutant) a setter that does not clear the bits first
fog_projectile_type_set_no_clear(field, new_fpt) ==
    field \cup (IF new_fpt THEN fog_mask ELSE {})

\* AMgefFlagsTes4.fog_projectile_type, the setter
fog_projectile_type_set(field, new_fpt) ==
    LET new_bits == IF new_fpt THEN fog_mask ELSE {} IN
    (field \ fog_mask) \cup new_bits

\* the bits of an MGEF flags field the model varies: hostile, use_attribute,
\* the two projectile types, no_hit_effect and the top bit
MgefBits == {0, 20, 25, 26, 27, 31}

\* a flags object is unpacked from a record
NewFlags ==
    /\ \/ \E f \in SUBSET SpellFlagBits :
             flags' = [cls |-> "SpellFlags", _field |-> f]
       \/ \E f \in SUBSET MgefBits :
             flags' = [cls |-> "AMgefFlagsTes4", _field |-> f]
    /\ effect' = [op |-> "new"]
    /\ UNCHANGED <<fidVars, ctdaVars, collVars, normVars, melSet, target,
                   _last_indx>>

\* spell_flags[index] = value
SetSpellFlag ==
    /\ flags.cls = "SpellFlags"
    /\ \E index \in SpellFlagBits, value \in BOOLEAN :
          /\ flags' = [flags EXCEPT !._field =
                          _SpellFlags__setitem__(flags._field, index, value)]
          /\ effect' = [op |-> "setitem", index |-> index, value |-> value,
                        was |-> flags._field]
    /\ UNCHANGED <<fidVars, ctdaVars, collVars, normVars, melSet, target,
                   _last_indx>>

\* mgef_flags.fog_projectile_type = value
SetFogProjectileType ==
    /\ flags.cls = "AMgefFlagsTes4"
    /\ \E value \in BOOLEAN :
          /\ flags' = [flags EXCEPT !._field =
                          fog_projectile_type_set(flags._field, value)]
          /\ effect' = [op |-> "set_fog", value |-> value,
                        was |-> flags._field]
    /\ UNCHANGED <<fidVars, ctdaVars, collVars, normVars, melSet, target,
                   _last_indx>>

FlagsNext == NewFlags \/ SetSpellFlag \/ SetFogProjectileType

SpecFlags == FidInit /\ [][FlagsNext]_vars

-----------------------------------------------------------------------------

(* The DATA chunk of a RACE record: fourteen skill bytes packed into one   *)
(* attribute, then the other attributes.  The record declares the format;  *)
(* here '14b', '2s', 'f', 'I' with the old version that ends before the    *)
(* flags.                                                                  *)

\* the skills and skill boosts of a race: unpacked[:14]
SkillCount == 14

\* the declaration: MelRaceData(b'DATA', ['14b', '2s', 'f', 'I'],
\* ('skills', [0] * 14), 'unused1', 'maleHeight', (flags, 'race_flags'),
\* old_versions={'14b2sf'})
RaceData ==
    Struct([i \in 1..SkillCount |-> "b"] \o <<"2s", "f", "I">>,
           <<"skills", "unused1", "maleHeight", "race_flags">>,
           <<"", "", "", "Flags">>,
           {[i \in 1..SkillCount |-> "b"] \o <<"2s", "f">>})

\* tuple(self._all_unpackers): the sizes of the accepted formats
_all_unpackers(st) == {FmtSize(f) : f \in AcceptedFormats(st)}

\* a record before its DATA chunk
RaceDataDefault ==
    [skills |-> [i \in 1..SkillCount |-> PInt(0)],
     unused1 |-> PBytes(Zeros(2)), maleHeight |-> PFloat(Zeros(4)),
     race_flags |-> PInt(0)]

\* (mutant) a load that takes the skills to be the first thirteen values
MelRaceData_load_mel_thirteen(st, rec, payload) ==
    IF Len(payload) \notin _all_unpackers(st)
    THEN Raise(<<"ModSizeError", _all_unpackers(st), Len(payload)>>)
    ELSE LET f == CHOOSE g \in AcceptedFormats(st) :
                     FmtSize(g) = Len(payload)
             unpacked == Only({
                 [i \in 1..Len(st.fmt) |->
                     IF i <= Len(u) THEN u[i] ELSE PInt(0)] :
                 u \in {UnpackAll(f, payload)}})
             rest == [i \in 1..(Len(st.attrs) - 1) |-> unpacked[13 + i]]
         IN  Ok(SetAttrs([rec EXCEPT !.skills = SubSeq(unpacked, 1, 13)],
                         Tail(st.attrs), rest))

\* MelRaceData.load_mel: a size without an unpacker is a ModSizeError that
\* carries the accepted sizes and the size; else the values are unpacked
\* (those an old version lacks are the defaults), the first fourteen are the
\* skills and the others go to attrs[1:] in order, each through its action
MelRaceData_load_mel(st, rec, payload) ==
    IF Len(payload) \notin _all_unpackers(st)
    THEN Raise(<<"ModSizeError", _all_unpackers(st), Len(payload)>>)
    ELSE LET f == CHOOSE g \in AcceptedFormats(st) :
                     FmtSize(g) = Len(payload)
             unpacked == Only({
                 [i \in 1..Len(st.fmt) |->
                     IF i <= Len(u) THEN u[i] ELSE PInt(0)] :
                 u \in {UnpackAll(f, payload)}})
             rest == [i \in 1..(Len(st.attrs) - 1) |->
                         unpacked[SkillCount + i]]
         IN  Ok(SetAttrs([rec EXCEPT !.skills =
                             SubSeq(unpacked, 1, SkillCount)],
                         Tail(st.attrs), rest))

\* DATA chunks on disk: the skills 1..14, -1 each or 0 and 128 (-128) in
\* turn, height 1.0 or 2.0, flags 3 or 1 or none (the old version), or two
\* bytes too many
SkillsOnDisk ==
    {[i \in 1..SkillCount |-> i], [i \in 1..SkillCount |-> 255],
     [i \in 1..SkillCount |-> 128 * (i % 2)]}
RaceDataChunks ==
    {sk \o <<7, 7>> \o height \o tail :
        sk \in SkillsOnDisk, height \in {<<0, 0, 128, 63>>, <<0, 0, 0, 64>>},
        tail \in {LE(3, 4), LE(1, 4), <<>>, <<3, 0, 0, 0, 0, 0>>}}

\* a RACE record is about to get its DATA chunk
NewRaceData ==
    /\ melSet' = "RACE.DATA"
    /\ target' = RaceDataDefault
    /\ effect' = [op |-> "new"]
    /\ UNCHANGED <<fidVars, ctdaVars, collVars, normVars, _last_indx, flags>>

\* a DATA chunk is loaded into the record; an exception leaves the record
LoadRaceData ==
    /\ melSet = "RACE.DATA"
    /\ \E payload \in RaceDataChunks :
          LET l == MelRaceData_load_mel(RaceData, target, payload) IN
          /\ target' = IF IsOk(l) THEN Val(l) ELSE target
          /\ effect' = [op |-> "load", data |-> payload, was |-> target,
                        r |-> IF IsOk(l) THEN Ok(0) ELSE l]
    /\ UNCHANGED <<fidVars, ctdaVars, collVars, normVars, melSet, _last_indx,
                   flags>>

RaceDataNext == NewRaceData \/ LoadRaceData

SpecRaceData == FidInit /\ [][RaceDataNext]_vars

-----------------------------------------------------------------------------

(* Reference remapping of a condition.  The function a remap is given is   *)
(* left uninterpreted: its result for v is <<"mapped", v>>, so a value it  *)
(* was applied to twice shows.                                             *)

MapFn(v) == <<"mapped", v>>

\* new_x = function(record.x); if save_fids: record.x = new_x -- on the
\* record and the calls made so far
Visit(st, attr, save_fids) ==
    [rec |-> IF save_fids THEN [st.rec EXCEPT ![attr] = MapFn(st.rec[attr])]
             ELSE st.rec,
     calls |-> Append(st.calls, <<attr, st.rec[attr]>>)]

\* MelStruct.mapFids: every attribute whose action is FID, from the i-th on
RECURSIVE MelStruct_mapFids(_, _, _, _)
MelStruct_mapFids(struct, st, save_fids, i) ==
    IF i > Len(struct.attrs) THEN st
    ELSE MelStruct_mapFids(struct,
                           IF struct.actions[i] = "FID"
                           THEN Visit(st, struct.attrs[i], save_fids)
                           ELSE st,
                           save_fids, i + 1)

\* MelUnion.mapFids: the struct mapped from record.ifunc remaps
MelUnion_mapFids(st, save_fids) ==
    MelStruct_mapFids(element_mapping[st.rec.ifunc[2]], st, save_fids, 1)

\* MelCtda.mapFids
MelCtda_mapFids(st, save_fids) ==
    LET s == MelUnion_mapFids(st, save_fids) IN
    IF use_global(s.rec.operFlag) THEN Visit(s, "compValue", save_fids)
    ELSE s

\* MelCtdaFo3._ignore_ifuncs of a game that is not Fallout New Vegas, and
\* MelCtdaFo3._vats_param2_fid
_ignore_ifuncs == {}
_vats_param2_fid == {0, 1, 2, 3, 9, 10}

\* MelCtdaFo3.mapFids
MelCtdaFo3_mapFids(st, save_fids) ==
    LET s == MelCtda_mapFids(st, save_fids)
        t == IF s.rec.runOn = PInt(2) /\ s.rec.ifunc[2] \notin _ignore_ifuncs
             THEN Visit(s, "reference", save_fids)
             ELSE s
    IN  IF /\ t.rec.ifunc = PInt(GetVatsValueIfunc)
           /\ t.rec.param1[1] = "int"
           /\ t.rec.param1[2] \in _vats_param2_fid
        THEN Visit(t, "param2", save_fids)
        ELSE t

\* the loaded condition is remapped
MapCond ==
    /\ phase = "loaded"
    /\ IsOk(cond)
    /\ \E save_fids \in BOOLEAN :
          LET m == MelCtdaFo3_mapFids([rec |-> Val(cond), calls |-> <<>>],
                                      save_fids) IN
          /\ cond' = Ok(m.rec)
          /\ effect' = [op |-> "mapFids", save_fids |-> save_fids,
                        was |-> Val(cond), calls |-> m.calls]
    /\ phase' = "mapped"
    /\ UNCHANGED <<fidVars, chunk, snap, out, outMs, collVars, normVars,
                   melSet, target, _last_indx, flags>>

RemapNext == EnterLoad \/ ExitLoad \/ LoadCond \/ MapCond

SpecRemap == FidInit /\ [][RemapNext]_vars

-----------------------------------------------------------------------------
(* MelDebrData: the DATA chunk of a debris record                         *)

null1 == PBytes(<<0>>)

\* byte_data[i] for a negative i: an int, or IndexError
bytes__getitem__(byte_data, i) ==
    IF Len(byte_data) + i < 0 THEN Raise("IndexError")
    ELSE Ok(PInt(byte_data[Len(byte_data) + i + 1]))

\* a slice bound i of a sequence of length n, as python clips it
slice_index(n, i) ==
    IF i < 0 THEN (IF n + i < 0 THEN 0 ELSE n + i)
    ELSE IF i > n THEN n ELSE i

\* byte_data[from:to]: never raises
bytes_slice(byte_data, from, to) ==
    LET s == slice_index(Len(byte_data), from)
        e == slice_index(Len(byte_data), to)
    IN  IF e <= s THEN <<>> ELSE Slice(byte_data, s + 1, e - s)

\* v != w for an int or bytes v and bytes w: values of different types
\* are never equal
bytes__ne__(v, w) == v[1] # w[1] \/ v[2] # w[2]

\* the byte of a one byte string
unpack_byte(b) ==
    IF Len(b) = 1 THEN Ok(struct_unpack("B", b)) ELSE Raise("struct.error")

\* struct_unpack('B', v)[0]: v has to be a bytes object of size one
struct_unpack_B(v) ==
    IF v[1] # "bytes" THEN Raise("TypeError")
    ELSE IF Len(v[2]) # 1 THEN Raise("struct.error")
    ELSE Ok(struct_unpack("B", v[2]))

DebrDefault ==
    [percentage |-> PNone, modPath |-> PNone, flags |-> PNone]

\* load_mel, statement by statement; rec is the record as the call leaves
\* it, r the outcome
MelDebrData_load_mel(rec, byte_data) ==
    LET p == unpack_byte(bytes_slice(byte_data, 0, 1))
        r1 == [rec EXCEPT !.percentage = Val(p)]
        r2 == [r1 EXCEPT !.modPath =
                  PBytes(bytes_slice(byte_data, 1, 0 - 2))]
        b2 == bytes__getitem__(byte_data, 0 - 2)
        b1 == bytes__getitem__(byte_data, 0 - 1)
        f == struct_unpack_B(Val(b1))
    IN  IF ~IsOk(p) THEN [rec |-> rec, r |-> p]
        ELSE IF ~IsOk(b2) THEN [rec |-> r2, r |-> b2]
        ELSE IF bytes__ne__(Val(b2), null1)
             THEN [rec |-> r2, r |-> Raise("ModError")]
        ELSE IF ~IsOk(f) THEN [rec |-> r2, r |-> f]
        ELSE [rec |-> [r2 EXCEPT !.flags = Val(f)], r |-> Ok(0)]

MelDebrData_pack_subrecord_data(rec) ==
    LET p == struct_pack("B", rec.percentage)
        f == struct_pack("B", rec.flags)
    IN  IF ~IsOk(p) THEN p
        ELSE IF ~IsOk(f) THEN f
        ELSE Ok(Val(p) \o rec.modPath[2] \o null1[2] \o Val(f))

DebrBytes == {0, 1, 255}
DebrPaths == {<<>>, <<97>>, <<97, 0>>, <<0, 98>>}
\* payloads that no dump wrote: too short, or without the null byte
DebrChunks == {<<>>, <<7>>, <<7, 0>>, <<7, 97, 1, 2>>, <<7, 97, 0, 2>>}

\* a debris record with its DATA set
NewDebr ==
    /\ melSet' = "DEBR.DATA"
    /\ \E p \in DebrBytes, m \in DebrPaths, f \in DebrBytes :
          target' = [percentage |-> PInt(p), modPath |-> PBytes(m),
                     flags |-> PInt(f)]
    /\ effect' = [op |-> "new"]
    /\ UNCHANGED <<fidVars, ctdaVars, collVars, normVars, _last_indx, flags>>

\* the record's DATA chunk is packed
DumpDebr ==
    /\ melSet = "DEBR.DATA"
    /\ effect.op = "new"
    /\ effect' = [op |-> "dump", was |-> target,
                  out |-> MelDebrData_pack_subrecord_data(target)]
    /\ UNCHANGED <<fidVars, ctdaVars, collVars, normVars, melSet, target,
                   _last_indx, flags>>

\* a DATA chunk, the one just packed or another, is loaded into a new
\* record
LoadDebr ==
    /\ melSet = "DEBR.DATA"
    /\ effect.op \in {"new", "dump"}
    /\ \E payload \in DebrChunks \cup
                      (IF effect.op = "dump" /\ IsOk(effect.out)
                       THEN {Val(effect.out)} ELSE {}) :
          LET l == MelDebrData_load_mel(DebrDefault, payload) IN
          /\ effect' = [op |-> "load", data |-> payload, was |-> target,
                        r |-> l.r]
          /\ target' = l.rec
    /\ UNCHANGED <<fidVars, ctdaVars, collVars, normVars, melSet, _last_indx,
                   flags>>

DebrNext == NewDebr \/ DumpDebr \/ LoadDebr

SpecDebr == FidInit /\ [][DebrNext]_vars

-----------------------------------------------------------------------------
(* MelGmstUnion: the value of a Morrowind game setting.  The union is      *)
(* decided by the signature of the value chunk that was loaded; the        *)
(* signature is kept with the record (_union_type) for the dump.           *)

PChars(s) == <<"chars", s>>

MelFloat(sig, attr) == [el |-> "float", mel_sig |-> sig, attr |-> attr]
MelSInt32(sig, attr) == [el |-> "sint32", mel_sig |-> sig, attr |-> attr]

_fmt_mapping == ("f" :> "FLTV") @@ ("i" :> "INTV") @@ ("s" :> "STRV")

\* MreGmst.melSet: the element mapping of the union
GmstUnion ==
    ("FLTV" :> MelFloat("FLTV", "value"))
    @@ ("INTV" :> MelSInt32("INTV", "value"))
    @@ ("STRV" :> MelString("STRV", "value"))

\* a record of the class: no _union_type attribute until a value is loaded
GmstDefault(mw_id) ==
    [mw_id |-> mw_id, value |-> PNone, _union_type |-> PNone]

\* the truth value of a string or None
str__bool__(v) == v # PNone /\ v[2] # <<>>

\* MelUnion._get_element: the element mapped from the decider's result
Gmst_get_element(decider_ret) ==
    IF decider_ret \in DOMAIN GmstUnion THEN Ok(GmstUnion[decider_ret])
    ELSE Raise("KeyError")

\* MelGmstUnion._get_element_from_record
MelGmstUnion__get_element_from_record(rec) ==
    IF rec._union_type = PNone
    THEN LET format_char == IF str__bool__(rec.mw_id) THEN rec.mw_id[2][1]
                            ELSE "i"
         IN  IF format_char \in DOMAIN _fmt_mapping
             THEN Gmst_get_element(_fmt_mapping[format_char])
             ELSE Raise("KeyError")
    ELSE Gmst_get_element(rec._union_type[2])

\* MelUnion.load_mel with a signature decider: the signature is the
\* decider's result, it is stored and the element loads the chunk
MelGmstUnion_load_mel(rec, sub_type, payload) ==
    LET v == CASE sub_type = "FLTV" -> <<"float", payload>>
               [] sub_type = "INTV" -> PInt(FromLESigned(payload))
               [] sub_type = "STRV" ->
                     PStr(SelectSeq(payload, LAMBDA b : b # 0))
    IN  [rec EXCEPT !._union_type = <<"sig", sub_type>>, !.value = v]

\* MelUnion.dumpData: the element chosen from the record, and its chunks
MelGmstUnion_dumpData(rec) ==
    LET e == MelGmstUnion__get_element_from_record(rec) IN
    [element |-> IF IsOk(e) THEN Ok(Val(e).mel_sig) ELSE e,
     out |-> IF ~IsOk(e) \/ rec.value = PNone THEN <<>>
             ELSE <<[sig |-> Val(e).mel_sig, value |-> rec.value]>>]

\* the ids of the model: none, empty, the three letters, and others
GmstIds ==
    {PNone, PChars(<<>>), PChars(<<"f", "R">>), PChars(<<"i">>),
     PChars(<<"s", "M">>), PChars(<<"F", "R">>), PChars(<<"x">>)}
GmstChunks ==
    {[sig |-> "FLTV", data |-> <<0, 0, 128, 63>>],
     [sig |-> "INTV", data |-> LE(5, 4)],
     [sig |-> "INTV", data |-> <<255, 255, 255, 255>>],
     [sig |-> "STRV", data |-> <<97, 0>>]}

\* a game setting with its id and no value
NewGmst ==
    /\ melSet' = "GMST"
    /\ \E mw_id \in GmstIds : target' = GmstDefault(mw_id)
    /\ effect' = [op |-> "new"]
    /\ UNCHANGED <<fidVars, ctdaVars, collVars, normVars, _last_indx, flags>>

\* a value chunk of the setting is loaded
LoadGmst ==
    /\ melSet = "GMST"
    /\ \E c \in GmstChunks :
          /\ target' = MelGmstUnion_load_mel(target, c.sig, c.data)
          /\ effect' = [op |-> "load", sig |-> c.sig, was |-> target]
    /\ UNCHANGED <<fidVars, ctdaVars, collVars, normVars, melSet, _last_indx,
                   flags>>

\* the setting's value is dumped
DumpGmst ==
    /\ melSet = "GMST"
    /\ LET d == MelGmstUnion_dumpData(target) IN
       effect' = [op |-> "dump", element |-> d.element, out |-> d.out]
    /\ UNCHANGED <<fidVars, ctdaVars, collVars, normVars, melSet, target,
                   _last_indx, flags>>

GmstNext == NewGmst \/ LoadGmst \/ DumpGmst

SpecGmst == FidInit /\ [][GmstNext]_vars

-----------------------------------------------------------------------------
(* The classes from_masters builds, as objects: a class has an identity    *)
(* (the number of classes built before it), and FormId._form_id_classes    *)
(* is a dict from keys to classes.                                         *)

MaxCalls == 4

\* the keys of the dict: the tuple of the masters' names, and the pair of
\* that tuple and the overlay flag.  A tuple of names never equals a pair
\* whose first element is a tuple.
NamesKey(augmented_masters) == <<"names", augmented_masters, FALSE>>
PairKey(augmented_masters, in_overlay_plugin) ==
    <<"pair", augmented_masters, in_overlay_plugin>>

\* d[key] = value
dict__setitem__(d, key, value) ==
    {e \in d : e.key # key} \cup {[key |-> key, value |-> value]}

\* FormId.from_masters with its cache: the class returned, the dict and the
\* number of classes built as the call leaves them
FormId_from_masters(classes, built, augmented_masters, in_overlay_plugin) ==
    LET hit == {e \in classes :
                   e.key = PairKey(augmented_masters, in_overlay_plugin)}
        _FormID == [id |-> built,
                    type |-> from_masters(augmented_masters,
                                          in_overlay_plugin)]
    IN  IF hit # {}
        THEN [form_id_type |-> (CHOOSE e \in hit : TRUE).value,
              classes |-> classes, built |-> built]
        ELSE [form_id_type |-> _FormID,
              classes |-> dict__setitem__(classes,
                             NamesKey(augmented_masters), _FormID),
              built |-> built + 1]

\* the interpreter starts: no class was built
StartClasses ==
    /\ melSet # "FormId._form_id_classes"
    /\ melSet' = "FormId._form_id_classes"
    /\ target' = [_form_id_classes |-> {}, built |-> 0, calls |-> <<>>]
    /\ effect' = [op |-> "start"]
    /\ UNCHANGED <<fidVars, ctdaVars, collVars, normVars, _last_indx, flags>>

\* FormId.from_masters(augmented_masters, in_overlay_plugin) is called
CallFromMasters ==
    /\ melSet = "FormId._form_id_classes"
    /\ Len(target.calls) < MaxCalls
    /\ \E augmented_masters \in LoadMasters, in_overlay_plugin \in BOOLEAN :
          LET c == FormId_from_masters(target._form_id_classes, target.built,
                      augmented_masters, in_overlay_plugin)
              call == [masters |-> augmented_masters,
                       overlay |-> in_overlay_plugin,
                       returned |-> c.form_id_type]
          IN  /\ target' = [_form_id_classes |-> c.classes,
                            built |-> c.built,
                            calls |-> Append(target.calls, call)]
              /\ effect' = [op |-> "from_masters", call |-> call]
    /\ UNCHANGED <<fidVars, ctdaVars, collVars, normVars, melSet, _last_indx,
                   flags>>

ClassNext == StartClasses \/ CallFromMasters

SpecClass == FidInit /\ [][ClassNext]_vars

-----------------------------------------------------------------------------
(* A condition after its dump: the record object is dumped a second time   *)
(* in the same dump session, or remapped, with no load in between.         *)

\* dumpData on the record that was just dumped
RedumpCond ==
    /\ phase = "dumped"
    /\ IsOk(out)
    /\ short_mapper = outMs
    /\ LET d == MelCtdaFo3_dumpData(short_mapper, Val(cond)) IN
       /\ cond' = Ok(d.rec)
       /\ effect' = [op |-> "dumpData", was |-> Val(cond), out |-> d.out]
    /\ phase' = "redumped"
    /\ UNCHANGED <<fidVars, chunk, snap, out, outMs, collVars, normVars,
                   melSet, target, _last_indx, flags>>

\* mapFids on the record that was just dumped
MapDumpedCond ==
    /\ phase = "dumped"
    /\ IsOk(out)
    /\ \E save_fids \in BOOLEAN :
          LET m == MelCtdaFo3_mapFids([rec |-> Val(cond), calls |-> <<>>],
                                      save_fids) IN
          /\ cond' = Ok(m.rec)
          /\ effect' = [op |-> "mapFids", save_fids |-> save_fids,
                        was |-> Val(cond), calls |-> m.calls]
    /\ phase' = "remapped"
    /\ UNCHANGED <<fidVars, chunk, snap, out, outMs, collVars, normVars,
                   melSet, target, _last_indx, flags>>

RedumpNext ==
    \/ EnterLoad \/ ExitLoad \/ EnterDump \/ ExitDump
    \/ LoadCond \/ DumpCond \/ RedumpCond \/ MapDumpedCond

SpecRedump == FidInit /\ [][RedumpNext]_vars

-----------------------------------------------------------------------------
(* _Mods_LoadListData: the named lists of active plugins.  loadListDict    *)
(* is a dict from names to plugin lists; a name is a sequence of           *)
(* characters.                                                             *)

MaxNameLen == 64

PFalse == <<"bool", FALSE>>
PTrue == <<"bool", TRUE>>

dict_keys(d) == {e.key : e \in d}
\* d[key]
dict__getitem__(d, key) ==
    IF key \in dict_keys(d)
    THEN Ok((CHOOSE e \in d : e.key = key).value)
    ELSE Raise("KeyError")
\* del d[key]
dict__delitem__(d, key) ==
    IF key \in dict_keys(d) THEN Ok({e \in d : e.key # key})
    ELSE Raise("KeyError")

\* _Mods_LoadListData.rename: the dict as the call leaves it, and what the
\* call returns
_Mods_LoadListData_rename(loadListDict, oldName, newName) ==
    IF Len(newName) = 0 \/ Len(newName) > MaxNameLen
    THEN [loadListDict |-> loadListDict, r |-> Ok(PFalse)]
    ELSE LET got == dict__getitem__(loadListDict, oldName)
             set == dict__setitem__(loadListDict, newName, Val(got))
             del == dict__delitem__(set, oldName)
         IN  IF ~IsOk(got) THEN [loadListDict |-> loadListDict, r |-> got]
             ELSE IF ~IsOk(del) THEN [loadListDict |-> set, r |-> del]
             ELSE [loadListDict |-> Val(del), r |-> Ok(PChars(newName))]

\* _Mods_LoadListData.remove
_Mods_LoadListData_remove(loadListDict, item) ==
    LET del == dict__delitem__(loadListDict, item) IN
    IF ~IsOk(del) THEN [loadListDict |-> loadListDict, r |-> del]
    ELSE [loadListDict |-> Val(del), r |-> Ok(PTrue)]

\* the names of the model: short ones, the empty one, and names of
\* MaxNameLen and of one more character
LongName(n) == [i \in 1..n |-> "x"]
ListNames ==
    {<<>>, <<"a">>, <<"b">>, LongName(MaxNameLen), LongName(MaxNameLen + 1)}
PluginLists == {<<"Foo.esm">>, <<"Foo.esm", "Bar.esp">>, <<>>}

\* the dialog opens on the lists that were saved
NewLoadLists ==
    /\ melSet' = "loadListDict"
    /\ \E va \in PluginLists, vb \in PluginLists, both \in BOOLEAN :
          target' = {[key |-> <<"a">>, value |-> va]}
                    \cup (IF both THEN {[key |-> <<"b">>, value |-> vb]}
                          ELSE {})
    /\ effect' = [op |-> "new"]
    /\ UNCHANGED <<fidVars, ctdaVars, collVars, normVars, _last_indx, flags>>

\* the user renames a list that exists
RenameLoadList ==
    /\ melSet = "loadListDict"
    /\ \E oldName \in dict_keys(target), newName \in ListNames :
          LET c == _Mods_LoadListData_rename(target, oldName, newName) IN
          /\ target' = c.loadListDict
          /\ effect' = [op |-> "rename", oldName |-> oldName,
                        newName |-> newName, was |-> target, r |-> c.r]
    /\ UNCHANGED <<fidVars, ctdaVars, collVars, normVars, melSet, _last_indx,
                   flags>>

\* the user removes a list that exists
RemoveLoadList ==
    /\ melSet = "loadListDict"
    /\ \E item \in dict_keys(target) :
          LET c == _Mods_LoadListData_remove(target, item) IN
          /\ target' = c.loadListDict
          /\ effect' = [op |-> "remove", oldName |-> item, was |-> target,
                        r |-> c.r]
    /\ UNCHANGED <<fidVars, ctdaVars, collVars, normVars, melSet, _last_indx,
                   flags>>

ListsNext == NewLoadLists \/ RenameLoadList \/ RemoveLoadList

SpecLists == FidInit /\ [][ListsNext]_vars

-----------------------------------------------------------------------------
(* Claims about conditions                                                 *)

\* two condition records are equal: attribute by attribute
CondEq(a, b) == \A n \in DOMAIN a : ValEq(a[n], b[n])

\* what the chunk last loaded holds on disk
DiskFlag == chunk[1]
DiskComp == Slice(chunk, 5, 4)
DiskIfunc == FromLE(Slice(chunk, 9, 2))
DiskParam1 == Slice(chunk, 13, 4)
DiskParam2 == Slice(chunk, 17, 4)
DiskGlobal == (DiskFlag \div 4) % 2 = 1
CondHeld == phase \in {"loaded", "reloaded"} /\ IsOk(cond)

\* C1: a loaded condition has compValue decoded as uint32 when use_global is
\* set and as float otherwise, and GetVATSValue's param2 decoded by the format
\* param1 selects; its dump in a dump session succeeds and writes both back
\* as they were on disk; and loading the dumped payload from the written
\* plugin yields a record equal in every attribute to the one dumped.
C1_RoundTrip ==
    /\ CondHeld =>
          /\ Val(cond).compValue =
                IF DiskGlobal THEN PInt(FromLE(DiskComp))
                ELSE PFloat(DiskComp)
          /\ DiskIfunc = GetVatsValueIfunc =>
                Val(cond).param2 =
                   LET p1 == FromLESigned(DiskParam1) IN
                   IF p1 = 5 THEN PInt(FromLESigned(DiskParam2))
                   ELSE IF p1 \in {0, 1, 2, 3, 6, 9, 10, 15, 18, 19, 20}
                   THEN PInt(FromLE(DiskParam2))
                   ELSE PBytes(DiskParam2)
    /\ (phase = "dumped" /\ outMs # NoMapper) =>
          /\ IsOk(out)
          /\ Slice(Val(out), 5, 4) = DiskComp
          /\ DiskIfunc = GetVatsValueIfunc =>
                Slice(Val(out), 17, 4) = DiskParam2
    /\ phase = "reloaded" =>
          /\ IsOk(cond)
          /\ CondEq(Val(cond), Val(snap))

\* a GetVATSValue condition on a global came back from the written plugin
C1_Witness ==
    /\ phase = "reloaded"
    /\ IsOk(cond)
    /\ Val(cond).ifunc = PInt(GetVatsValueIfunc)
    /\ Val(cond).param1 = PInt(5)
    /\ Val(cond).param2 = PInt(1065353216)
    /\ Val(cond).compValue = PInt(16777219)
    /\ Val(snap).compValue = PInt(16777219)
    /\ IsPFid(Val(cond).reference)
    /\ Val(cond).reference[2].masters # Val(snap).reference[2].masters

\* the sizes of the current format and of its three old versions
CtdaSizes == {20, 24, 28, 32}
Known == DiskIfunc \in DOMAIN condition_function_data

\* C3: a condition chunk whose length is the size of the current format or
\* of one of the old formats (prefix + parameters + '2I', 'I' or '') loads,
\* sets the attributes that format covers from the chunk and leaves the tail
\* attributes at their defaults (0, a form identifier of short value 0); a
\* chunk of any other length is a size error; a dump always writes the full
\* 32-byte format, zeros standing for the attributes that were not on disk.
C3_TruncatedAcceptance ==
    /\ (phase = "loaded" /\ Known /\ Len(chunk) \in CtdaSizes) =>
          /\ IsOk(cond)
          /\ Val(cond).operFlag = PInt(DiskFlag)
          /\ Val(cond).ifunc = PInt(DiskIfunc)
          /\ Val(cond).runOn =
                IF Len(chunk) >= 24 THEN PInt(FromLE(Slice(chunk, 21, 4)))
                ELSE PInt(0)
          /\ IsPFid(Val(cond).reference)
          /\ Val(cond).reference[2].short_fid =
                IF Len(chunk) >= 28 THEN FromLE(Slice(chunk, 25, 4)) ELSE 0
          /\ Val(cond).param3 =
                IF Len(chunk) = 32 THEN PInt(FromLESigned(Slice(chunk, 29, 4)))
                ELSE PInt(0)
    /\ (phase = "loaded" /\ Known /\ Len(chunk) \notin CtdaSizes) =>
          cond = Raise("ModSizeError")
    /\ (phase = "dumped" /\ IsOk(out)) =>
          /\ Len(Val(out)) = 32
          /\ Len(chunk) < 24 => Slice(Val(out), 21, 4) = Zeros(4)
          /\ Len(chunk) < 28 => Slice(Val(out), 25, 3) = Zeros(3)
          /\ Len(chunk) < 32 => Slice(Val(out), 29, 4) = Zeros(4)

\* a chunk in the old format that ends after runOn was loaded and dumped
C3_Witness ==
    /\ phase = "dumped"
    /\ Len(chunk) = 24
    /\ IsOk(out)
    /\ Len(Val(out)) = 32
    /\ Val(snap).runOn = PInt(2)
    /\ Val(snap).param3 = PInt(0)
    /\ Val(snap).reference[2].short_fid = 0

-----------------------------------------------------------------------------
(* Claims about counters and sorted collections                            *)

\* a dump of the record that went through
Dumped_ok == IsOk(before) /\ IsOk(written)
\* the positions of the chunks written under a signature
ChunksOf(sig) ==
    {i \in 1..Len(Val(written)) : Val(written)[i][1] = sig}
\* the counter signatures and the collection each is paired with
CounterPairs ==
    {<<"CITC", "conditionCount", "conditions">>,
     <<"KSIZ", "keyword_count", "keywords">>,
     <<"INDX", "entry_count", "entries">>,
     <<"NAM0", "temporary_children_counter", "temporary_children">>,
     <<"LFSP", "sprite_count", "lensFlareSprites">>}

\* C4: on dump a counter paired with a collection is written once, with the
\* length the collection has at that moment as an unsigned 32-bit integer,
\* whatever the counter attribute held, and is not written at all when the
\* collection is empty.
C4_CounterCorrectness ==
    Dumped_ok =>
      \A p \in CounterPairs :
         p[3] \in DOMAIN Val(before) =>
           IF Len(Val(before)[p[3]]) = 0 THEN ChunksOf(p[1]) = {}
           ELSE \E i \in 1..Len(Val(written)) :
                   /\ ChunksOf(p[1]) = {i}
                   /\ Val(written)[i][2] = LE(Len(Val(before)[p[3]]), 4)

\* a cell whose counter holds a stale 7 and whose temporary children, one
\* of them added by the caller, differ in number from the persistent ones
C4_Witness ==
    /\ Dumped_ok
    /\ schema = MreCell
    /\ Val(before)["temporary_children_counter"] = 7
    /\ Val(before)["temporary_children"] = <<PInt(1), PInt(3)>>
    /\ Len(Val(before)["persistent_children"]) = 1
    /\ \E i \in ChunksOf("NAM0") : Val(written)[i][2] = <<2, 0, 0, 0>>

\* the declared order of two key values at dump time: form identifiers by
\* their short forms under the output masters, numbers by value
KeySame(v, w) ==
    IF IsPFid(v)
    THEN OwnerOf(v[2]) = OwnerOf(w[2]) /\ ObjectOf(v[2]) = ObjectOf(w[2])
    ELSE v[2] = w[2]
KeyBefore(v, w) ==
    IF IsPFid(v)
    THEN ShortUnder(writtenBy, v[2]) < ShortUnder(writtenBy, w[2])
    ELSE v[2] < w[2]
KeysOf(keys, item) ==
    IF keys = <<>> THEN <<item>> ELSE [i \in 1..Len(keys) |-> item[keys[i]]]
TupleSame(k1, k2) == \A i \in 1..Len(k1) : KeySame(k1[i], k2[i])
TupleBefore(k1, k2) ==
    \E i \in 1..Len(k1) :
       /\ KeyBefore(k1[i], k2[i])
       /\ \A j \in 1..(i - 1) : KeySame(k1[j], k2[j])
Perms(n) ==
    {f \in [1..n -> 1..n] : \A i, j \in 1..n : f[i] = f[j] => i = j}
Permuted(list, f) == [i \in 1..Len(list) |-> list[f[i]]]

\* outp holds the items of inp, ascending by the keys, items with the same
\* keys in the order they have in inp
StablySorted(inp, outp, keys, Same(_, _)) ==
    /\ Len(outp) = Len(inp)
    /\ \E f \in Perms(Len(inp)) :
          /\ \A i \in 1..Len(inp) : Same(inp[f[i]], outp[i])
          /\ \A i, j \in 1..Len(inp) :
                i < j =>
                  \/ TupleBefore(KeysOf(keys, outp[i]), KeysOf(keys, outp[j]))
                  \/ /\ TupleSame(KeysOf(keys, outp[i]), KeysOf(keys, outp[j]))
                     /\ f[i] < f[j]
SameItem(a, b) == a = b
\* a group of sounds is written with its own sound_types sorted by sound
SameSounds(a, b) ==
    /\ a.type = b.type
    /\ StablySorted(a.sound_types, b.sound_types, <<"sound">>, SameItem)

\* the items written for a collection, in the order they were written
RECURSIVE ItemsIn(_, _)
ItemsIn(chunks, attr) ==
    IF chunks = <<>> THEN <<>>
    ELSE IF Head(chunks)[1] = attr
         THEN <<Head(chunks)[2]>> \o ItemsIn(Tail(chunks), attr)
         ELSE ItemsIn(Tail(chunks), attr)
WrittenItems(attr) == ItemsIn(Val(written), attr)

DistinctKeys(inp, keys) ==
    \A i, j \in 1..Len(inp) :
       i < j => ~TupleSame(KeysOf(keys, inp[i]), KeysOf(keys, inp[j]))
\* the dump of the record with a collection in another order
Reordered(attr, f) ==
    DumpAll(writtenBy, schema,
            [Val(before) EXCEPT ![attr] = Permuted(@, f)]).out

SortedOnDump(attr, keys, Same(_, _)) ==
    (Dumped_ok /\ attr \in DOMAIN Val(before)) =>
       /\ StablySorted(Val(before)[attr], WrittenItems(attr), keys, Same)
       /\ DistinctKeys(Val(before)[attr], keys) =>
             \A f \in Perms(Len(Val(before)[attr])) :
                Reordered(attr, f) = written

\* C5: on dump the keywords, the locations (by direct, indirect, gridy,
\* gridx) and the sounds (by type, each with its sound_types by sound) are
\* written in the order of a stable sort by the declared keys: ascending by
\* the first key, ties broken by the next ones, items equal on all keys in
\* input order; items with distinct keys are written in the same order
\* whatever order they were in.
C5_SortedCollections ==
    /\ SortedOnDump("keywords", <<>>, SameItem)
    /\ SortedOnDump("locations",
                    <<"direct", "indirect", "gridy", "gridx">>, SameItem)
    /\ SortedOnDump("sounds", <<"type">>, SameSounds)

\* locations written in another order than they were in: a tie on direct
\* broken by indirect, and two equal items behind it
C5_Witness ==
    /\ Dumped_ok
    /\ schema = MelLscrLocations
    /\ Len(Val(before)["locations"]) = 3
    /\ Val(before)["locations"][2] = Val(before)["locations"][3]
    /\ KeySame(Val(before)["locations"][1]["direct"],
               Val(before)["locations"][2]["direct"])
    /\ KeyBefore(Val(before)["locations"][2]["indirect"],
                 Val(before)["locations"][1]["indirect"])
    /\ WrittenItems("locations") = Permuted(Val(before)["locations"],
                                            <<2, 3, 1>>)

-----------------------------------------------------------------------------
(* Claims about elements that normalise on dump                            *)

\* the record of an element was dumped, loaded from what was written and
\* dumped again, and the second dump writes what the first one wrote
DumpedTwice(mel) == normPhase = "redumped" /\ normMel = mel
IdempotentDumpOf(mel) == DumpedTwice(mel) => dumps[2].out = dumps[1].out

\* C2: a record that is dumped, loaded from what was written and dumped again
\* under the same output masters is written the same both times, whether
\* its element is a MelMODS, a MelRaceVoices or a MelActionFlags.
C2_IdempotentDump == \A mel \in NormMels : IdempotentDumpOf(mel)

-----------------------------------------------------------------------------
(* Claims about sentinels, equality and hashing                            *)

C12_LongFormIdentity ==
    (IsFormId(fa) /\ IsFormId(fb)) =>
      /\ res.op = "compare" =>
           /\ res.cmp.eq = Ok(Val(long_fid(fa)) = Val(long_fid(fb)))
           /\ res.cmp.ne = Ok(Val(long_fid(fa)) # Val(long_fid(fb)))
      /\ (res.op = "hash" /\ Val(long_fid(fa)) = Val(long_fid(fb)))
           => Val(res.r)[1] = Val(res.r)[2]

\* a form id of a loaded plugin and one made from a tuple, with different
\* short values and the same long form, compared
C12_Witness ==
    /\ res.op = "compare"
    /\ fa.cls = "_FormID" /\ fb.cls = "__FormId"
    /\ fa.short_fid # fb.short_fid
    /\ res.cmp.eq = Ok(TRUE) /\ res.cmp.ne = Ok(FALSE)

-----------------------------------------------------------------------------
(* Claims about unions                                                     *)

\* the last operation loaded a chunk of a region entry of this type
RegnLoaded(sig, entryType) ==
    /\ melSet = "REGN"
    /\ effect.op = "load"
    /\ effect.sig = sig
    /\ effect.was.entryType = PInt(entryType)

\* C13: a chunk loaded through a union is loaded by the sub-descriptor
\* mapped from the decider's key and by no other: a condition chunk of a
\* function in the table is loaded whole by the struct of the function index
\* in the chunk (param1 a form id and param2 bytes for function 1, an int
\* and a float for function 14); a map name chunk of a region entry of type
\* 4 is loaded by the map name string, a music chunk of an entry of type 7
\* by the music integer, and a chunk of an entry of another type invokes
\* neither.
C13_UnionDispatch ==
    /\ (phase = "loaded" /\ Known /\ Len(chunk) \in CtdaSizes) =>
          /\ IsOk(cond)
          /\ Val(cond).ifunc = PInt(DiskIfunc)
          /\ Val(cond).operFlag = PInt(DiskFlag)
          /\ DiskIfunc = 1 =>
                /\ IsPFid(Val(cond).param1)
                /\ Val(cond).param1[2].short_fid = FromLE(DiskParam1)
                /\ Val(cond).param2 = PBytes(DiskParam2)
          /\ DiskIfunc = 14 =>
                /\ Val(cond).param1 = PInt(FromLESigned(DiskParam1))
                /\ Val(cond).param2 = PFloat(DiskParam2)
          /\ DiskIfunc = GetVatsValueIfunc =>
                Val(cond).param1 = PInt(FromLESigned(DiskParam1))
    /\ RegnLoaded("RDMP", 4) =>
          /\ effect.invoked = <<MelString("RDMP", "mapName")>>
          /\ target = [effect.was EXCEPT !.mapName =
                          PStr(SubSeq(effect.data, 1, Len(effect.data) - 1))]
    /\ RegnLoaded("RDMD", 7) =>
          /\ effect.invoked = <<MelUInt32("RDMD", "musicType")>>
          /\ target = [effect.was EXCEPT !.musicType =
                          PInt(FromLE(effect.data))]
    /\ \A t \in EntryTypes :
          /\ (RegnLoaded("RDMP", t) /\ t # 4) =>
                \A i \in 1..Len(effect.invoked) :
                   effect.invoked[i] # MelString("RDMP", "mapName")
          /\ (RegnLoaded("RDMD", t) /\ t # 7) =>
                \A i \in 1..Len(effect.invoked) :
                   effect.invoked[i] # MelUInt32("RDMD", "musicType")

\* a sound entry holds the music type its chunk carried, and a condition on
\* function 14 was loaded
C13_Witness ==
    /\ RegnLoaded("RDMD", 7)
    /\ target.musicType = PInt(2)
    /\ phase = "loaded"
    /\ IsOk(cond)
    /\ DiskIfunc = 14
    /\ Val(cond).param2 = PFloat(Param2Bytes)

\* C14: a key that maps to no sub-descriptor goes to the fallback of a
\* union that has one and is an error in a union that has none: a chunk of
\* a region entry of another type than the wrapper's sets no attribute, and
\* the dump of an entry writes nothing for a wrapper of another type; a
\* condition chunk whose function index is not in the table fails to load.
C14_MissingKey ==
    /\ \A t \in EntryTypes :
          /\ (RegnLoaded("RDMP", t) /\ t # 4) =>
                target = effect.was /\ effect.invoked = <<MelNull("NULL")>>
          /\ (RegnLoaded("RDMD", t) /\ t # 7) =>
                target = effect.was /\ effect.invoked = <<MelNull("NULL")>>
    /\ (melSet = "REGN" /\ effect.op = "dump") =>
          \A i \in 1..Len(effect.out) :
             /\ effect.out[i].sig = "RDMP" => target.entryType = PInt(4)
             /\ effect.out[i].sig = "RDMD" => target.entryType = PInt(7)
    /\ (phase = "loaded" /\ Len(chunk) >= 10 /\ ~Known) => IsRaise(cond)

\* an entry of type 9 was dumped to nothing after a map name chunk changed
\* nothing, and a condition on function 9 failed to load
C14_Witness ==
    /\ melSet = "REGN"
    /\ effect.op = "dump"
    /\ target = RegnEntry(9)
    /\ effect.out = <<>>
    /\ phase = "loaded"
    /\ DiskIfunc = 9
    /\ cond = Raise("ArgumentError")

-----------------------------------------------------------------------------
(* Claims about what a descriptor declares and keeps                       *)

\* C15: every signature the load of a descriptor consumes is among those
\* getLoaders registers for it, and every attribute the load sets is among
\* those getSlotsUsed returns: for the parts of a RACE record (INDX chunks
\* and the chunks of a part) and for conditions (any function index).
C15_LoadersAndSlots ==
    /\ (melSet = "RACE" /\ effect.op = "load" /\ IsOk(target)) =>
          /\ effect.sig \in MelRaceParts_getLoaders
          /\ \A a \in DOMAIN Val(target) :
                Val(target)[a] # effect.was[a] =>
                   a \in MelRaceParts_getSlotsUsed
    /\ (phase = "loaded" /\ IsOk(cond)) =>
          /\ "CTDA" \in MelCtda_getLoaders
          /\ DOMAIN Val(cond) \subseteq MelCtda_getSlotsUsed

\* the chunks in order loaded by a descriptor whose _last_indx is last_indx
RECURSIVE LoadChunks(_, _, _)
LoadChunks(last_indx, r, chunks) ==
    IF chunks = <<>> \/ IsRaise(r) THEN r
    ELSE LET l == MelRaceParts_load_mel(last_indx, Val(r), Head(chunks).sig,
                                        Head(chunks).data)
         IN  LoadChunks(l.last_indx, l.r, Tail(chunks))

\* C17: a load leaves the descriptor as it was constructed, so the chunks
\* of a record loaded into a new record give the attributes a descriptor
\* just constructed gives for them, whatever records were loaded before.
C17_SameAttributes ==
    (melSet = "RACE" /\ effect.op \in {"new", "load"}) =>
       target = LoadChunks(<<"none", 0>>, Ok(RaceDefault), effect.seen)

-----------------------------------------------------------------------------
(* Claims about resolver sessions                                          *)

\* C16: a resolver is replaced only by its absence (a session that ends
\* leaves FORM_ID, respectively short_mapper, absent before another can
\* begin); FID between load sessions fails, and in a load session makes an
\* object of the class of that session's masters; the dump of a form
\* identifier between dump sessions fails, and in a dump session yields the
\* index of its owner in that session's masters.
C16_ResolverSessions ==
    /\ [](/\ (res.op = "FID" /\ FORM_ID = NoFormId) => IsRaise(res.r)
          /\ (res.op = "FID" /\ FORM_ID # NoFormId) =>
                /\ IsOk(res.r)
                /\ fb = Val(res.r)
                /\ fb.masters = FORM_ID.masters
                /\ fb.overlay = FORM_ID.overlay
          /\ (res.op = "dump"
                /\ fa.cls \in {"FormId", "_FormID", "__FormId"}) =>
                /\ short_mapper = NoMapper => IsRaise(res.r)
                /\ IsOk(res.r) =>
                      /\ Val(res.r) \div Shift24 + 1 \in 1..Len(short_mapper)
                      /\ short_mapper[Val(res.r) \div Shift24 + 1] =
                            Val(mod_fn(fa)))
    /\ [][/\ (FORM_ID # NoFormId /\ FORM_ID' # FORM_ID) =>
                FORM_ID' = NoFormId
          /\ (short_mapper # NoMapper /\ short_mapper' # short_mapper) =>
                short_mapper' = NoMapper]_vars

\* a form identifier made in a second load session has the class of that
\* session's masters, next to one made in the session before
C16_Witness ==
    /\ res.op = "FID"
    /\ FORM_ID = from_masters(<<"Game.esm">>, FALSE)
    /\ fa.cls = "_FormID"
    /\ fa.masters = <<"Foo.esm", "Bar.esp">>
    /\ fb.masters = <<"Game.esm">>

-----------------------------------------------------------------------------
(* Claims about flags                                                      *)

\* C18: in SpellFlags, setting bit 1 to a value sets bits 1 and 3 to it and
\* leaves every other bit as it was; setting any other bit, bit 3 included,
\* sets that bit and leaves every other bit as it was.
C18_LinkedBits ==
    (flags.cls = "SpellFlags" /\ effect.op = "setitem") =>
       \A b \in 0..31 :
          (b \in flags._field) =
             IF b = effect.index \/ (effect.index = 1 /\ b = 3)
             THEN effect.value
             ELSE b \in effect.was

\* bit 3 alone was cleared in a field that keeps bit 1
C18_Witness ==
    /\ flags.cls = "SpellFlags"
    /\ effect.op = "setitem"
    /\ effect.index = 3
    /\ effect.value = FALSE
    /\ effect.was = {1, 3, 4}
    /\ flags._field = {1, 4}

\* C19: fog_projectile_type reads true exactly when bits 25 and 26 are both
\* set; writing a value makes bits 25 and 26 that value and leaves every
\* other bit of the 32 as it was, so the value written is the value read
\* and the value of spray_projectile_type and of bolt_projectile_type.
C19_MaskedFlag ==
    flags.cls = "AMgefFlagsTes4" =>
       /\ fog_projectile_type(flags._field) =
             (25 \in flags._field /\ 26 \in flags._field)
       /\ effect.op = "set_fog" =>
             /\ \A b \in 0..31 :
                   (b \in flags._field) =
                      IF b \in {25, 26} THEN effect.value
                      ELSE b \in effect.was
             /\ fog_projectile_type(flags._field) = effect.value
             /\ flag(flags._field, 25) = effect.value
             /\ flag(flags._field, 26) = effect.value

\* false was written to a field that had bit 26 but not bit 25, and the
\* bits around the mask stayed
C19_Witness ==
    /\ flags.cls = "AMgefFlagsTes4"
    /\ effect.op = "set_fog"
    /\ effect.value = FALSE
    /\ effect.was = {20, 26, 27, 31}
    /\ flags._field = {20, 27, 31}

-----------------------------------------------------------------------------
(* Claims about the DATA chunk of a RACE record                            *)

\* the last operation loaded a DATA chunk
RaceDataLoaded == melSet = "RACE.DATA" /\ effect.op = "load"

\* C20: a DATA chunk whose length is none of the accepted sizes (24, and 20
\* for the old version) fails with a size error that carries the accepted
\* sizes and the chunk's length, and the record keeps every attribute; a
\* chunk of an accepted size loads its first 14 values (signed bytes) into
\* skills and the values after them into unused1, maleHeight and race_flags
\* in that order.
C20_SizeErrors ==
    /\ (RaceDataLoaded /\ Len(effect.data) \notin {20, 24}) =>
          /\ effect.r = Raise(<<"ModSizeError", {20, 24}, Len(effect.data)>>)
          /\ target = effect.was
    /\ (RaceDataLoaded /\ Len(effect.data) \in {20, 24}) =>
          /\ IsOk(effect.r)
          /\ Len(target.skills) = 14
          /\ \A i \in 1..14 :
                target.skills[i] =
                   PInt(IF effect.data[i] >= 128 THEN effect.data[i] - 256
                        ELSE effect.data[i])
          /\ target.unused1 = PBytes(Slice(effect.data, 15, 2))
          /\ target.maleHeight = PFloat(Slice(effect.data, 17, 4))
          /\ Len(effect.data) = 24 =>
                target.race_flags = PInt(FromLE(Slice(effect.data, 21, 4)))

\* a chunk of 26 bytes failed to load into a record that holds the skills
\* and flags of the chunk before it
C20_Witness ==
    /\ RaceDataLoaded
    /\ Len(effect.data) = 26
    /\ IsRaise(effect.r)
    /\ target.skills[14] = PInt(14)
    /\ target.race_flags = PInt(3)

-----------------------------------------------------------------------------
(* Claims about remapping                                                  *)

\* the attributes the function was called on, and how often on one
Visited == {effect.calls[i][1] : i \in 1..Len(effect.calls)}
VisitsOf(attr) ==
    Cardinality({i \in 1..Len(effect.calls) : effect.calls[i][1] = attr})

\* C21: the remap of a condition calls the function on param1 when the
\* function index declares it a form id, on compValue exactly when
\* use_global is set, on reference exactly when runOn is 2, on
\* GetVATSValue's param2 exactly when param1 is in {0, 1, 2, 3, 9, 10}, and
\* on nothing else; with save_fids each such attribute becomes the
\* function's result for the value it held, without it the record is
\* unchanged.
C21_RemapVisits ==
    (phase = "mapped" /\ effect.op = "mapFids") =>
       /\ ("param1" \in Visited) = (effect.was.ifunc = PInt(1))
       /\ ("compValue" \in Visited) = use_global(effect.was.operFlag)
       /\ ("reference" \in Visited) = (effect.was.runOn = PInt(2))
       /\ ("param2" \in Visited) =
             (/\ effect.was.ifunc = PInt(GetVatsValueIfunc)
              /\ effect.was.param1[2] \in {0, 1, 2, 3, 9, 10})
       /\ Visited \subseteq {"param1", "compValue", "reference", "param2"}
       /\ \A a \in DOMAIN effect.was :
             Val(cond)[a] = IF effect.save_fids /\ a \in Visited
                            THEN MapFn(effect.was[a])
                            ELSE effect.was[a]

\* C21 (what the remap does): as above, but the function is called on
\* reference once for every condition and once more when runOn is 2, and
\* with save_fids the second call is on the result of the first.
C21_RemapAsCoded ==
    (phase = "mapped" /\ effect.op = "mapFids") =>
       /\ VisitsOf("param1") = IF effect.was.ifunc = PInt(1) THEN 1 ELSE 0
       /\ VisitsOf("compValue") =
             IF use_global(effect.was.operFlag) THEN 1 ELSE 0
       /\ VisitsOf("reference") = IF effect.was.runOn = PInt(2) THEN 2 ELSE 1
       /\ VisitsOf("param2") =
             IF /\ effect.was.ifunc = PInt(GetVatsValueIfunc)
                /\ effect.was.param1[2] \in {0, 1, 2, 3, 9, 10}
             THEN 1 ELSE 0
       /\ (effect.save_fids /\ effect.was.runOn = PInt(2)) =>
             Val(cond).reference = MapFn(MapFn(effect.was.reference))
       /\ ~effect.save_fids => Val(cond) = effect.was

-----------------------------------------------------------------------------
(* Claims about the parts of a RACE record                                 *)

\* the positions of the INDX chunks among the chunks of the record so far
IndxAt == {i \in 1..Len(effect.seen) : effect.seen[i].sig = "INDX"}

\* C22: a part chunk that was loaded follows an INDX chunk of the same
\* record, and it went to the attribute mapped from the value of the last
\* INDX chunk of that record before it, no other attribute changing.
C22_PartsUnderOwnIndx ==
    (/\ melSet = "RACE"
     /\ effect.op = "load"
     /\ effect.sig # "INDX"
     /\ IsOk(target)) =>
       /\ IndxAt # {}
       /\ LET last == CHOOSE i \in IndxAt : \A j \in IndxAt : j <= i
              attr == _indx_to_attr[FromLE(effect.seen[last].data)]
          IN  /\ Val(target)[attr][1] = "obj"
              /\ \A a \in DOMAIN effect.was :
                    a # attr => Val(target)[a] = effect.was[a]

\* the chunks of a part that is present: its paths, each if it is set
PartChunks(part) ==
    (IF part.modPath[1] = "none" THEN <<>>
     ELSE <<[sig |-> "MODL", data |-> part.modPath[2] \o <<0>>]>>)
    \o (IF part.iconPath[1] = "none" THEN <<>>
        ELSE <<[sig |-> "ICON", data |-> part.iconPath[2] \o <<0>>]>>)

\* what the dump of a part is to be: nothing when the part is not present
IndxAndPart(rec, part_indx) ==
    IF rec[_indx_to_attr[part_indx]][1] = "none" THEN <<>>
    ELSE <<[sig |-> "INDX", data |-> LE(part_indx, 4)]>>
         \o PartChunks(rec[_indx_to_attr[part_indx]][2])

\* C23: the dump of the parts writes, in ascending order of INDX, for each
\* part that is present an INDX chunk with its value and then the part's
\* chunks, and nothing for a part that is not present.
C23_PartsDump ==
    (melSet = "RACE" /\ effect.op = "dump") =>
       effect.out = IndxAndPart(Val(target), 0) \o IndxAndPart(Val(target), 1)

\* C23 (what the dump does): the INDX chunk of every declared part is
\* written, in ascending order, each followed by the chunks of its part if
\* the part is present.
C23_PartsDumpAsCoded ==
    (melSet = "RACE" /\ effect.op = "dump") =>
       LET at == {i \in 1..Len(effect.out) : effect.out[i].sig = "INDX"} IN
       /\ Cardinality(at) = 2
       /\ \A i \in at, j \in at :
             i < j => FromLE(effect.out[i].data) < FromLE(effect.out[j].data)
       /\ effect.out[1].sig = "INDX"

-----------------------------------------------------------------------------
(* Claims about the voices of a race                                       *)

\* a voice is zero: the int the dump sets, or a form identifier whose short
\* value is 0
ZeroVoice(v) == v = PInt(0) \/ (IsPFid(v) /\ v[2].short_fid = 0)

\* C24: after the dump of a record with voices, no voice equals the
\* record's own form id any more (it was set to zero); no chunk was written
\* exactly when both voices are zero, be it the int the dump sets or a null
\* form identifier; and otherwise the dump succeeded and wrote the chunk.
C24_VoicesSkip ==
    (normMel = "MelRaceVoices" /\ normPhase = "dumped") =>
       /\ ~PyEquals(Val(normRec).maleVoice, Val(normRec).fid)
       /\ ~PyEquals(Val(normRec).femaleVoice, Val(normRec).fid)
       /\ IsOk(dumps[1].out)
       /\ (Val(dumps[1].out).chunk = PNone) =
             (/\ ZeroVoice(Val(normRec).maleVoice)
              /\ ZeroVoice(Val(normRec).femaleVoice))

-----------------------------------------------------------------------------
(* Claims about the DATA chunk of a debris record                         *)

\* a chunk was loaded that the dump of the record `was` wrote
DebrReloaded ==
    /\ melSet = "DEBR.DATA"
    /\ effect.op = "load"
    /\ effect.data = Val(MelDebrData_pack_subrecord_data(effect.was))

\* C25: loading the bytes the dump wrote (percentage, modPath, a null byte,
\* flags) succeeds and gives a record with the same percentage, modPath and
\* flags; a load raises ModError only when the payload's second-to-last
\* byte is not null.
C25_DebrRoundTrip ==
    /\ DebrReloaded => (IsOk(effect.r) /\ target = effect.was)
    /\ (melSet = "DEBR.DATA" /\ effect.op = "load"
          /\ Raises(effect.r, "ModError"))
       => effect.data[Len(effect.data) - 1] # 0

\* C25 as coded: every payload of two bytes or more raises ModError, the
\* second-to-last byte being an int and never equal to the null byte string
C25_DebrAsCoded ==
    (melSet = "DEBR.DATA" /\ effect.op = "load") =>
       IF Len(effect.data) >= 2 THEN Raises(effect.r, "ModError")
       ELSE IsRaise(effect.r)

-----------------------------------------------------------------------------
(* Claims about the value of a game setting                                *)

\* the first letter of the id of the record dumped, "" for no or an empty id
FirstLetter ==
    IF str__bool__(target.mw_id) THEN target.mw_id[2][1] ELSE ""

\* C26: the dump of a setting that had no value chunk loaded chooses,
\* whatever the id, an element without error: FLTV for the first letter f,
\* INTV for i and for an empty id, STRV for s; the dump of a setting that
\* had a value chunk loaded chooses the element of the loaded signature.
C26_GmstFallback ==
    (melSet = "GMST" /\ effect.op = "dump") =>
       IF target._union_type = PNone
       THEN /\ IsOk(effect.element)
            /\ FirstLetter = "f" => effect.element = Ok("FLTV")
            /\ FirstLetter \in {"i", ""} => effect.element = Ok("INTV")
            /\ FirstLetter = "s" => effect.element = Ok("STRV")
       ELSE effect.element = Ok(target._union_type[2])

\* C26 as coded: an id that starts with another letter raises KeyError
C26_GmstAsCoded ==
    (melSet = "GMST" /\ effect.op = "dump" /\ target._union_type = PNone) =>
       effect.element =
          CASE FirstLetter = "f" -> Ok("FLTV")
            [] FirstLetter \in {"i", ""} -> Ok("INTV")
            [] FirstLetter = "s" -> Ok("STRV")
            [] OTHER -> Raise("KeyError")

-----------------------------------------------------------------------------
(* Claims about master indices out of range                                *)

\* what a short form id of a plugin has to resolve to
ClampedLong(o) ==
    LET n == Len(o.masters)
        index == o.short_fid \div Shift24
        low == o.short_fid % Shift24
    IN  IF ~o.overlay
        THEN (IF index >= n THEN LongT(o.masters[n], low)
              ELSE LongT(o.masters[index + 1], low))
        ELSE (IF index >= n - 1 THEN LongT(o.masters[1], low)
              ELSE LongT(o.masters[index + 1], low))

\* C27: a short form id of a normal plugin whose master index is at or
\* beyond the number of masters resolves to the last master and the low 24
\* bits; one of an overlay plugin whose index is at or beyond the number of
\* masters less one resolves to the first master and the low 24 bits; lower
\* indices resolve to the master at the index.
C27_OutOfRangeMaster ==
    \A o \in {fa, fb} :
       o.cls = "_FormID" => long_fid(o) = Ok(ClampedLong(o))

\* an overlay form id at the threshold and a normal one beyond its masters
C27_Witness ==
    /\ fa.cls = "_FormID" /\ fb.cls = "_FormID"
    /\ fa.overlay /\ Len(fa.masters) = 2 /\ mod_dex(fa) = 1
    /\ long_fid(fa) = Ok(LongT(fa.masters[1], object_dex(fa)))
    /\ ~fb.overlay /\ mod_dex(fb) >= Len(fb.masters)
    /\ long_fid(fb) = Ok(LongT(fb.masters[Len(fb.masters)], object_dex(fb)))

-----------------------------------------------------------------------------
(* Claims about the cache of form id classes                               *)

Calls == IF melSet = "FormId._form_id_classes" THEN target.calls ELSE <<>>

\* C28: a call of from_masters with masters and an overlay flag that an
\* earlier call was made with returns the class object that call returned;
\* and every class returned resolves with the masters and the flag (overlay
\* or normal) of its call.
C28_ClassCache ==
    \A i \in DOMAIN Calls, j \in DOMAIN Calls :
       /\ Calls[i].returned.type =
             from_masters(Calls[i].masters, Calls[i].overlay)
       /\ (Calls[i].masters = Calls[j].masters
             /\ Calls[i].overlay = Calls[j].overlay)
          => Calls[i].returned.id = Calls[j].returned.id

\* C28 as coded: no lookup finds a class, every call builds a new one
C28_ClassCacheAsCoded ==
    \A i \in DOMAIN Calls :
       /\ Calls[i].returned.id = i - 1
       /\ Calls[i].returned.type =
             from_masters(Calls[i].masters, Calls[i].overlay)

-----------------------------------------------------------------------------
(* Claims about a record after its dump                                    *)

\* C29: a dump that succeeded left the condition as it was before; a second
\* dump of the same record in the same session succeeds and writes the
\* bytes the first one wrote; a remap after the dump calls the function on
\* decoded values, never on packed bytes.
C29_DumpKeepsRecord ==
    /\ (phase = "dumped" /\ IsOk(out)) => cond = snap
    /\ phase = "redumped" => effect.out = out
    /\ phase = "remapped" =>
          \A i \in 1..Len(effect.calls) : effect.calls[i][2][1] # "bytes"

\* C29 as coded: the dump leaves compValue (and GetVATSValue's param2) as
\* the bytes it packed and nothing else changed, so the second dump raises
\* struct.error and a remap of compValue sees bytes
C29_DumpAsCoded ==
    /\ (phase = "dumped" /\ IsOk(out)) =>
          /\ Val(cond).compValue[1] = "bytes"
          /\ \A a \in DOMAIN Val(cond) \ {"compValue", "param2"} :
                Val(cond)[a] = Val(snap)[a]
    /\ phase = "redumped" => Raises(effect.out, "struct.error")
    /\ phase = "remapped" =>
          \A i \in 1..Len(effect.calls) :
             effect.calls[i][1] = "compValue"
                => effect.calls[i][2][1] = "bytes"

-----------------------------------------------------------------------------
(* Claims about the lists of active plugins                                *)

Renamed == melSet = "loadListDict" /\ effect.op = "rename"

\* C30: a rename of an existing list that returns something other than
\* False leaves the new name mapped to the list the old name was mapped to
\* (also when the two names are equal), the old name gone unless it is the
\* new one, and every list under another name as it was; a rename to an
\* empty name or to one of more than 64 characters returns False and leaves
\* the dict unchanged.
C30_Rename ==
    Renamed =>
       /\ effect.r # Ok(PFalse) =>
             /\ dict__getitem__(target, effect.newName)
                   = dict__getitem__(effect.was, effect.oldName)
             /\ effect.oldName # effect.newName
                   => effect.oldName \notin dict_keys(target)
             /\ \A e \in effect.was :
                   e.key \notin {effect.oldName, effect.newName}
                      => e \in target
       /\ (Len(effect.newName) = 0 \/ Len(effect.newName) > 64) =>
             (effect.r = Ok(PFalse) /\ target = effect.was)

\* C30 as coded: as stated when the new name differs from the old one; a
\* rename of a list to its own name removes the list
C30_RenameAsCoded ==
    Renamed =>
       /\ (effect.r # Ok(PFalse) /\ effect.oldName # effect.newName) =>
             /\ dict__getitem__(target, effect.newName)
                   = dict__getitem__(effect.was, effect.oldName)
             /\ effect.oldName \notin dict_keys(target)
             /\ \A e \in effect.was :
                   e.key \notin {effect.oldName, effect.newName}
                      => e \in target
       /\ (effect.r # Ok(PFalse) /\ effect.oldName = effect.newName) =>
             target = {e \in effect.was : e.key # effect.oldName}
       /\ (Len(effect.newName) = 0 \/ Len(effect.newName) > 64) =>
             (effect.r = Ok(PFalse) /\ target = effect.was)

=============================================================================
